---------------------------- MODULE Spec2Model ----------------------------
(***************************************************************************)
(* A model of the 8bp-graphics-converter tools:                            *)
(*   png2asm.py   PNG images  -> one ASM text (db lines + INK hints)       *)
(*   asm2pngs.py  ASM text(s) -> one PNG per labelled block                *)
(*   asm2png.py   one ASM     -> one PNG (flexible geometry)               *)
(* Text is modelled character by character: a line is a sequence of        *)
(* one-character strings, a text a sequence of lines.                      *)
(***************************************************************************)
EXTENDS Integers, Sequences, FiniteSets, TLC

VARIABLES
    codec,          \* bit codec harness: one pack/decode round on one input
    nearest,        \* nearest_ink harness: one call on one (rgb, tol)
    guess,          \* guess_format harness: one call on one (rows, flat)
    parser,         \* parse_blocks_from_asm harness: one call on one text
    args,           \* command line of the batch tools (mode, tol, inks)
    pngs,           \* png2asm: the sorted list of PNG files found
    pc,             \* position of the batch pipeline
    pi,             \* png2asm main: number of loop iterations done
    f,              \* png2asm main: lines written to the output ASM
    summary,        \* png2asm main: summary rows
    converted_ok,   \* png2asm main: counter
    converted_fail, \* png2asm main: counter
    conv,           \* png2asm main: what the last convert_png_to_rows did
    asm_dir,        \* the files of the ASM directory, [name, text] each
    asms,           \* asm2pngs main: the ASM texts found, in order
    ai,             \* asm2pngs main: number of ASM files fully processed
    blocks,         \* asm2pngs main: blocks of the file being processed
    bi,             \* asm2pngs main: blocks of that file already decoded
    dsummary,       \* asm2pngs main: summary rows
    ok,             \* asm2pngs main: counter
    fail,           \* asm2pngs main: counter
    total_blocks,   \* asm2pngs main: counter
    saved           \* asm2pngs main: images saved, in order, with their path

vars == <<codec, nearest, guess, parser, args, pngs, pc, pi, f, summary, converted_ok,
          converted_fail, conv, asm_dir, asms, ai, blocks, bi, dsummary, ok,
          fail, total_blocks, saved>>

codecVars == <<codec>>
nearestVars == <<nearest>>
guessVars == <<guess>>
parserVars == <<parser>>
batchVars == <<args, pngs, pc, pi, f, summary, converted_ok, converted_fail,
               conv, asm_dir, asms, ai, blocks, bi, dsummary, ok, fail,
               total_blocks, saved>>


(***************************************************************************)
(* Python integer operators on non-negative integers.                      *)
(***************************************************************************)
Shr(x, k) == x \div (2 ^ k)
Shl(x, k) == x * (2 ^ k)
And1(x) == x % 2

RECURSIVE BitOr(_, _)
BitOr(a, b) ==
    IF a = 0 THEN b
    ELSE IF b = 0 THEN a
    ELSE (IF a % 2 = 1 \/ b % 2 = 1 THEN 1 ELSE 0) + 2 * BitOr(a \div 2, b \div 2)

Max2(a, b) == IF a >= b THEN a ELSE b
Min2(a, b) == IF a <= b THEN a ELSE b
Abs(a) == IF a >= 0 THEN a ELSE -a

(***************************************************************************)
(* Mode table.                                                             *)
(***************************************************************************)
MODE_SPECS ==
    [m \in 0..2 |->
        CASE m = 0 -> [mode |-> 0, colors |-> 16, px_per_byte |-> 2, bits_per_px |-> 4]
          [] m = 1 -> [mode |-> 1, colors |-> 4,  px_per_byte |-> 4, bits_per_px |-> 2]
          [] m = 2 -> [mode |-> 2, colors |-> 2,  px_per_byte |-> 8, bits_per_px |-> 1]]

(***************************************************************************)
(* Bit codec: png2asm.py packs, asm2pngs.py and asm2png.py decode.         *)
(***************************************************************************)
pack_mode0_swapped(p0, p1) ==
    LET b1 == BitOr(0,  Shl(And1(Shr(p0, 0)), 7))
        b2 == BitOr(b1, Shl(And1(Shr(p1, 0)), 6))
        b3 == BitOr(b2, Shl(And1(Shr(p0, 1)), 5))
        b4 == BitOr(b3, Shl(And1(Shr(p1, 1)), 4))
        b5 == BitOr(b4, Shl(And1(Shr(p0, 2)), 3))
        b6 == BitOr(b5, Shl(And1(Shr(p1, 2)), 2))
        b7 == BitOr(b6, Shl(And1(Shr(p0, 3)), 1))
        b8 == BitOr(b7, Shl(And1(Shr(p1, 3)), 0))
    IN  b8

pack_mode0(p0, p1) ==
    LET b1 == BitOr(0,  Shl(And1(Shr(p0, 0)), 7))
        b2 == BitOr(b1, Shl(And1(Shr(p1, 0)), 6))
        b3 == BitOr(b2, Shl(And1(Shr(p0, 2)), 5))
        b4 == BitOr(b3, Shl(And1(Shr(p1, 2)), 4))
        b5 == BitOr(b4, Shl(And1(Shr(p0, 1)), 3))
        b6 == BitOr(b5, Shl(And1(Shr(p1, 1)), 2))
        b7 == BitOr(b6, Shl(And1(Shr(p0, 3)), 1))
        b8 == BitOr(b7, Shl(And1(Shr(p1, 3)), 0))
    IN  b8

pack_mode1(p0, p1, p2, p3) ==
    LET b1 == BitOr(0,  Shl(And1(Shr(p0, 1)), 7))
        b2 == BitOr(b1, Shl(And1(Shr(p1, 1)), 6))
        b3 == BitOr(b2, Shl(And1(Shr(p2, 1)), 5))
        b4 == BitOr(b3, Shl(And1(Shr(p3, 1)), 4))
        b5 == BitOr(b4, Shl(And1(Shr(p0, 0)), 3))
        b6 == BitOr(b5, Shl(And1(Shr(p1, 0)), 2))
        b7 == BitOr(b6, Shl(And1(Shr(p2, 0)), 1))
        b8 == BitOr(b7, Shl(And1(Shr(p3, 0)), 0))
    IN  b8

RECURSIVE pack_mode2_from(_, _, _)
\* the loop of pack_mode2: i is the 0-based index of the next element
pack_mode2_from(pxs, i, b) ==
    IF i >= Len(pxs) THEN b
    ELSE pack_mode2_from(pxs, i + 1, BitOr(b, Shl(And1(pxs[i + 1]), 7 - i)))

pack_mode2(pxs) == pack_mode2_from(pxs, 0, 0)

decode_mode0(b) ==
    LET p0a == BitOr(0,   Shl(And1(Shr(b, 7)), 0))
        p1a == BitOr(0,   Shl(And1(Shr(b, 6)), 0))
        p0b == BitOr(p0a, Shl(And1(Shr(b, 5)), 2))
        p1b == BitOr(p1a, Shl(And1(Shr(b, 4)), 2))
        p0c == BitOr(p0b, Shl(And1(Shr(b, 3)), 1))
        p1c == BitOr(p1b, Shl(And1(Shr(b, 2)), 1))
        p0d == BitOr(p0c, Shl(And1(Shr(b, 1)), 3))
        p1d == BitOr(p1c, Shl(And1(Shr(b, 0)), 3))
    IN  <<p0d, p1d>>

decode_mode1_swapped(b) ==
    LET p0 == BitOr(Shl(And1(Shr(b, 3)), 1), Shl(And1(Shr(b, 7)), 0))
        p1 == BitOr(Shl(And1(Shr(b, 2)), 1), Shl(And1(Shr(b, 6)), 0))
        p2 == BitOr(Shl(And1(Shr(b, 1)), 1), Shl(And1(Shr(b, 5)), 0))
        p3 == BitOr(Shl(And1(Shr(b, 0)), 1), Shl(And1(Shr(b, 4)), 0))
    IN  <<p0, p1, p2, p3>>

decode_mode1(b) ==
    LET p0 == BitOr(Shl(And1(Shr(b, 7)), 1), Shl(And1(Shr(b, 3)), 0))
        p1 == BitOr(Shl(And1(Shr(b, 6)), 1), Shl(And1(Shr(b, 2)), 0))
        p2 == BitOr(Shl(And1(Shr(b, 5)), 1), Shl(And1(Shr(b, 1)), 0))
        p3 == BitOr(Shl(And1(Shr(b, 4)), 1), Shl(And1(Shr(b, 0)), 0))
    IN  <<p0, p1, p2, p3>>

decode_mode2(b) == [i \in 1..8 |-> And1(Shr(b, 7 - (i - 1)))]

\* asm2png.py carries its own copies of the three decoders
asm2png_decode_mode0(b) ==
    LET p0a == BitOr(0,   Shl(And1(Shr(b, 7)), 0))
        p1a == BitOr(0,   Shl(And1(Shr(b, 6)), 0))
        p0b == BitOr(p0a, Shl(And1(Shr(b, 5)), 2))
        p1b == BitOr(p1a, Shl(And1(Shr(b, 4)), 2))
        p0c == BitOr(p0b, Shl(And1(Shr(b, 3)), 1))
        p1c == BitOr(p1b, Shl(And1(Shr(b, 2)), 1))
        p0d == BitOr(p0c, Shl(And1(Shr(b, 1)), 3))
        p1d == BitOr(p1c, Shl(And1(Shr(b, 0)), 3))
    IN  <<p0d, p1d>>

asm2png_decode_mode1(b) ==
    LET p0 == BitOr(Shl(And1(Shr(b, 7)), 1), Shl(And1(Shr(b, 3)), 0))
        p1 == BitOr(Shl(And1(Shr(b, 6)), 1), Shl(And1(Shr(b, 2)), 0))
        p2 == BitOr(Shl(And1(Shr(b, 5)), 1), Shl(And1(Shr(b, 1)), 0))
        p3 == BitOr(Shl(And1(Shr(b, 4)), 1), Shl(And1(Shr(b, 0)), 0))
    IN  <<p0, p1, p2, p3>>

asm2png_decode_mode2(b) == [i \in 1..8 |-> And1(Shr(b, 7 - (i - 1)))]

\* the mode dispatch of the decoding loops (asm2pngs.py 267-272, asm2png.py 194-199)
DecodeByte(tool, m, b) ==
    IF tool = "asm2pngs"
    THEN (IF m = 0 THEN decode_mode0(b)
          ELSE IF m = 1 THEN decode_mode1(b)
          ELSE decode_mode2(b))
    ELSE (IF m = 0 THEN asm2png_decode_mode0(b)
          ELSE IF m = 1 THEN asm2png_decode_mode1(b)
          ELSE asm2png_decode_mode2(b))

\* the mode dispatch of the packing loop (png2asm.py 210-226)
PackPens(m, ps) ==
    IF m = 0 THEN pack_mode0(ps[1], ps[2])
    ELSE IF m = 1 THEN pack_mode1(ps[1], ps[2], ps[3], ps[4])
    ELSE pack_mode2(ps)


(***************************************************************************)
(* Palette table (png2asm.py; asm2pngs.py and asm2png.py hold the same).   *)
(***************************************************************************)
INK_RGB_PCT ==
    [i \in 0..26 |->
        << <<0, 0, 0>>,     <<0, 0, 50>>,     <<0, 0, 100>>,
           <<50, 0, 0>>,    <<50, 0, 50>>,    <<50, 0, 100>>,
           <<100, 0, 0>>,   <<100, 0, 50>>,   <<100, 0, 100>>,
           <<0, 50, 0>>,    <<0, 50, 50>>,    <<0, 50, 100>>,
           <<50, 50, 0>>,   <<50, 50, 50>>,   <<50, 50, 100>>,
           <<100, 50, 0>>,  <<100, 50, 50>>,  <<100, 50, 100>>,
           <<0, 100, 0>>,   <<0, 100, 50>>,   <<0, 100, 100>>,
           <<50, 100, 0>>,  <<50, 100, 50>>,  <<50, 100, 100>>,
           <<100, 100, 0>>, <<100, 100, 50>>, <<100, 100, 100>> >>[i + 1]]

\* Python's round(): to the nearest integer, a tie to the even one
PyRoundDiv(n, d) ==
    LET q == n \div d
        r == n % d
    IN  IF 2 * r < d THEN q
        ELSE IF 2 * r > d THEN q + 1
        ELSE IF q % 2 = 0 THEN q ELSE q + 1

pct_to_8bit(p) ==
    IF p = 0 THEN 0
    ELSE IF p = 50 THEN 128
    ELSE IF p = 100 THEN 255
    ELSE PyRoundDiv(p * 255, 100)

INK_RGB ==
    [k \in 0..26 |-> [c \in 1..3 |-> pct_to_8bit(INK_RGB_PCT[k][c])]]

\* asm2pngs.py builds its own copy of the table
asm2pngs_INK_RGB ==
    [k \in 0..26 |-> [c \in 1..3 |-> pct_to_8bit(INK_RGB_PCT[k][c])]]

\* best_d starts at 10**18 in the source; TLC's integers are 32 bits wide and
\* no squared distance between 8-bit colours exceeds 3 * 255^2, so the largest
\* 32-bit value stands for it.
BEST_D_INIT == 2147483647

Sq(x) == x * x

SqDist(rgb, ink) ==
    Sq(rgb[1] - INK_RGB[ink][1]) + Sq(rgb[2] - INK_RGB[ink][2]) + Sq(rgb[3] - INK_RGB[ink][3])

RECURSIVE nearest_scan_le(_, _, _, _)
nearest_scan_le(rgb, ink, best, best_d) ==
    IF ink > 26 THEN best
    ELSE IF SqDist(rgb, ink) <= best_d
         THEN nearest_scan_le(rgb, ink + 1, ink, SqDist(rgb, ink))
         ELSE nearest_scan_le(rgb, ink + 1, best, best_d)

RECURSIVE nearest_scan(_, _, _, _)
\* the for loop of nearest_ink over INK_RGB.items(), from `ink` on
nearest_scan(rgb, ink, best, best_d) ==
    IF ink > 26 THEN best
    ELSE IF SqDist(rgb, ink) < best_d
         THEN nearest_scan(rgb, ink + 1, ink, SqDist(rgb, ink))
         ELSE nearest_scan(rgb, ink + 1, best, best_d)

Max3(a, b, c) == Max2(a, Max2(b, c))
Min3(a, b, c) == Min2(a, Min2(b, c))

\* abs(rgb[c] - INK_RGB[best][c])
ChanDiff(rgb, best, c) == Abs(rgb[c] - INK_RGB[best][c])

check_tol_ge(rgb, tol, best) ==
    IF tol >= 0 /\ Max3(ChanDiff(rgb, best, 1), ChanDiff(rgb, best, 2), ChanDiff(rgb, best, 3)) >= tol
    THEN [raised |-> TRUE, ink |-> best]
    ELSE [raised |-> FALSE, ink |-> best]

check_tol_min(rgb, tol, best) ==
    IF tol >= 0 /\ Min3(ChanDiff(rgb, best, 1), ChanDiff(rgb, best, 2), ChanDiff(rgb, best, 3)) > tol
    THEN [raised |-> TRUE, ink |-> best]
    ELSE [raised |-> FALSE, ink |-> best]

\* lines 94-98; raised = TRUE stands for the ValueError, ink is then the
\* rejected candidate
check_tol(rgb, tol, best) ==
    IF tol >= 0 /\ Max3(ChanDiff(rgb, best, 1), ChanDiff(rgb, best, 2), ChanDiff(rgb, best, 3)) > tol
    THEN [raised |-> TRUE, ink |-> best]
    ELSE [raised |-> FALSE, ink |-> best]

nearest_ink(rgb, tol) == check_tol(rgb, tol, nearest_scan(rgb, 0, 0, BEST_D_INIT))


(***************************************************************************)
(* Harness of the bit codec: one byte is decoded and packed back, or one   *)
(* pen tuple is packed and decoded back.                                   *)
(***************************************************************************)
PenTuples(m) == [1..MODE_SPECS[m].px_per_byte -> 0..(MODE_SPECS[m].colors - 1)]

CodecOff == [pc |-> "off", tool |-> "asm2pngs", mode |-> 0, kind |-> "byte",
             b0 |-> 0, t0 |-> <<>>, pens |-> <<>>, byte |-> 0]

CodecInputs ==
    {[pc |-> "start", tool |-> t, mode |-> m, kind |-> "byte",
      b0 |-> b, t0 |-> <<>>, pens |-> <<>>, byte |-> 0] :
        t \in {"asm2pngs", "asm2png"}, m \in 0..2, b \in 0..255}
    \cup
    UNION {{[pc |-> "start", tool |-> t, mode |-> m, kind |-> "pens",
             b0 |-> 0, t0 |-> ps, pens |-> <<>>, byte |-> 0] :
                t \in {"asm2pngs", "asm2png"}, ps \in PenTuples(m)} : m \in 0..2}

CodecDecode ==
    /\ codec.pc = "start" /\ codec.kind = "byte"
    /\ codec' = [codec EXCEPT !.pc = "mid",
                              !.pens = DecodeByte(codec.tool, codec.mode, codec.b0)]

CodecPackBack ==
    /\ codec.pc = "mid" /\ codec.kind = "byte"
    /\ codec' = [codec EXCEPT !.pc = "done",
                              !.byte = PackPens(codec.mode, codec.pens)]

CodecPack ==
    /\ codec.pc = "start" /\ codec.kind = "pens"
    /\ codec' = [codec EXCEPT !.pc = "mid",
                              !.byte = PackPens(codec.mode, codec.t0)]

CodecDecodeBack ==
    /\ codec.pc = "mid" /\ codec.kind = "pens"
    /\ codec' = [codec EXCEPT !.pc = "done",
                              !.pens = DecodeByte(codec.tool, codec.mode, codec.byte)]

(***************************************************************************)
(* Harness of nearest_ink: one call.                                       *)
(***************************************************************************)
\* channel values tried: within ChanRadius of a palette level or of the
\* midpoint between two levels
ChanRadius == 1
ChanCentres == {0, 64, 128, 191, 255}
Channels == {c \in 0..255 : \E l \in ChanCentres : Abs(c - l) <= ChanRadius}
Tols == {-1, 0, 8, 63, 64}

NearestOff == [pc |-> "off", rgb |-> <<0, 0, 0>>, tol |-> 0,
               res |-> [raised |-> FALSE, ink |-> 0]]

NearestInputs ==
    {[pc |-> "in", rgb |-> <<r, g, b>>, tol |-> t,
      res |-> [raised |-> FALSE, ink |-> 0]] :
        r \in Channels, g \in Channels, b \in Channels, t \in Tols}

NearestCall ==
    /\ nearest.pc = "in"
    /\ nearest' = [nearest EXCEPT !.pc = "out",
                                  !.res = nearest_ink(nearest.rgb, nearest.tol)]

(***************************************************************************)
(* Characters and strings.  A string is a sequence of one-character        *)
(* strings; the accented letters of the Spanish comments are the           *)
(* characters "o_acute", "u_acute", "i_acute", "I_acute".                  *)
(***************************************************************************)
Digits == <<"0", "1", "2", "3", "4", "5", "6", "7", "8", "9">>
LowerCase == <<"a", "b", "c", "d", "e", "f", "g", "h", "i", "j", "k", "l", "m", "n", "o", "p", "q", "r", "s", "t", "u", "v", "w", "x", "y", "z">>
UpperCase == <<"A", "B", "C", "D", "E", "F", "G", "H", "I", "J", "K", "L", "M", "N", "O", "P", "Q", "R", "S", "T", "U", "V", "W", "X", "Y", "Z">>
HexChars == <<"0", "1", "2", "3", "4", "5", "6", "7", "8", "9", "a", "b", "c", "d", "e", "f", "A", "B", "C", "D", "E", "F">>
AccentLower == <<"o_acute", "u_acute", "i_acute">>
AccentUpper == <<"O_acute", "U_acute", "I_acute">>

Range(s) == {s[i] : i \in 1..Len(s)}
SetMin(S) == CHOOSE x \in S : \A y \in S : x <= y
SetMax(S) == CHOOSE x \in S : \A y \in S : x >= y

DigitSet == Range(Digits)
HexSet == Range(HexChars)
LetterSet == Range(LowerCase) \cup Range(UpperCase)
AccentSet == Range(AccentLower) \cup Range(AccentUpper)

DigitVal == [c \in DigitSet |-> (CHOOSE i \in 1..10 : Digits[i] = c) - 1]
HexVal ==
    [c \in HexSet |->
        LET i == CHOOSE k \in 1..22 : HexChars[k] = c
        IN  IF i <= 16 THEN i - 1 ELSE i - 7]
UpperMap ==
    [c \in Range(LowerCase) \cup Range(AccentLower) |->
        IF c \in Range(LowerCase)
        THEN UpperCase[CHOOSE i \in 1..26 : LowerCase[i] = c]
        ELSE AccentUpper[CHOOSE i \in 1..3 : AccentLower[i] = c]]
LowerMap ==
    [c \in Range(UpperCase) \cup Range(AccentUpper) |->
        IF c \in Range(UpperCase)
        THEN LowerCase[CHOOSE i \in 1..26 : UpperCase[i] = c]
        ELSE AccentLower[CHOOSE i \in 1..3 : AccentUpper[i] = c]]

IsDigit(c) == c \in DigitSet                      \* \d
IsHex(c) == c \in HexSet                          \* [0-9A-Fa-f]
IsSpace(c) == c \in {" ", "\t"}                   \* \s
IsIdentStart(c) == c \in LetterSet \/ c = "_"     \* [A-Za-z_]
IsIdentChar(c) == IsIdentStart(c) \/ IsDigit(c)   \* [A-Za-z0-9_]
IsWordChar(c) == IsIdentChar(c) \/ c \in AccentSet  \* \w

upper(s) == [i \in 1..Len(s) |-> IF s[i] \in DOMAIN UpperMap THEN UpperMap[s[i]] ELSE s[i]]
lower(s) == [i \in 1..Len(s) |-> IF s[i] \in DOMAIN LowerMap THEN LowerMap[s[i]] ELSE s[i]]

startswith(s, p) == Len(s) >= Len(p) /\ SubSeq(s, 1, Len(p)) = p
endswith(s, p) == Len(s) >= Len(p) /\ SubSeq(s, Len(s) - Len(p) + 1, Len(s)) = p
\* p in s
contains(s, p) == \E i \in 1..(Len(s) - Len(p) + 1) : SubSeq(s, i, i + Len(p) - 1) = p

strip(s) ==
    LET keep == {i \in 1..Len(s) : ~IsSpace(s[i])}
    IN  IF keep = {} THEN <<>> ELSE SubSeq(s, SetMin(keep), SetMax(keep))

\* s.rstrip(",")
rstrip_comma(s) ==
    LET keep == {i \in 1..Len(s) : s[i] # ","}
    IN  IF keep = {} THEN <<>> ELSE SubSeq(s, 1, SetMax(keep))

\* s.split(";", 1)[0]
before_semicolon(s) ==
    LET at == {i \in 1..Len(s) : s[i] = ";"}
    IN  IF at = {} THEN s ELSE SubSeq(s, 1, SetMin(at) - 1)

RECURSIVE StrNat(_)
StrNat(n) ==
    IF n < 10 THEN <<Digits[n + 1]>>
    ELSE StrNat(n \div 10) \o <<Digits[(n % 10) + 1]>>

\* str(n) of a Python int
str(n) == IF n < 0 THEN <<"-">> \o StrNat(-n) ELSE StrNat(n)

RECURSIVE IntOf(_, _, _)
\* the value of the digit string s in the given base, continuing from acc
IntOf(s, base, acc) ==
    IF s = <<>> THEN acc
    ELSE IntOf(Tail(s), base, acc * base + HexVal[Head(s)])

RECURSIVE join(_, _)
\* sep.join(parts)
join(sep, parts) ==
    IF parts = <<>> THEN <<>>
    ELSE IF Len(parts) = 1 THEN parts[1]
    ELSE parts[1] \o sep \o join(sep, Tail(parts))

RECURSIVE Flatten(_)
Flatten(ss) == IF ss = <<>> THEN <<>> ELSE Head(ss) \o Flatten(Tail(ss))

(***************************************************************************)
(* Regular-expression matching, by position.  Positions are 1-based; the   *)
(* position Len(s) + 1 is the end of the string.                           *)
(***************************************************************************)
\* the first position from i on whose character fails P (a greedy P*)
SkipWhile(s, i, P(_)) ==
    LET stop == {j \in i..Len(s) : ~P(s[j])}
    IN  IF stop = {} THEN Max2(i, Len(s) + 1) ELSE SetMin(stop)

WordAt(s, i) == i >= 1 /\ i <= Len(s) /\ IsWordChar(s[i])
\* \b just before position i
Boundary(s, i) == WordAt(s, i - 1) # WordAt(s, i)
CharAt(s, i) == IF i >= 1 /\ i <= Len(s) THEN s[i] ELSE ""

(***************************************************************************)
(* asm2pngs.py: parse_num, sanitize_name, parse_blocks_from_asm.           *)
(***************************************************************************)
\* Optional[int]: ok = FALSE stands for None
parse_num(token0) ==
    LET token == rstrip_comma(strip(token0))
    IN  IF token = <<>> THEN [ok |-> FALSE, val |-> 0]
        ELSE IF startswith(token, <<"&">>)
            THEN [ok |-> TRUE, val |-> IntOf(Tail(token), 16, 0)]
        ELSE IF startswith(lower(token), <<"0", "x">>)
            THEN [ok |-> TRUE, val |-> IntOf(SubSeq(token, 3, Len(token)), 16, 0)]
        ELSE IF startswith(token, <<"$">>)
            THEN [ok |-> TRUE, val |-> IntOf(Tail(token), 16, 0)]
        ELSE IF Head(token) = "-" /\ Len(token) >= 2
                /\ \A i \in 2..Len(token) : IsDigit(token[i])
            THEN [ok |-> TRUE, val |-> -IntOf(Tail(token), 10, 0)]
        ELSE IF \A i \in 1..Len(token) : IsDigit(token[i])
            THEN [ok |-> TRUE, val |-> IntOf(token, 10, 0)]
        ELSE [ok |-> FALSE, val |-> 0]

\* re.sub(r"_+", "_", s)
RECURSIVE collapse_underscores(_)
collapse_underscores(s) ==
    IF Len(s) < 2 THEN s
    ELSE IF s[1] = "_" /\ s[2] = "_" THEN collapse_underscores(Tail(s))
    ELSE <<s[1]>> \o collapse_underscores(Tail(s))

\* s.strip("_")
strip_underscores(s) ==
    LET keep == {i \in 1..Len(s) : s[i] # "_"}
    IN  IF keep = {} THEN <<>> ELSE SubSeq(s, SetMin(keep), SetMax(keep))

\* ASCII only: [^A-Za-z0-9_] also replaces accented letters
non_ident_to_underscore(s) ==
    [i \in 1..Len(s) |-> IF IsIdentChar(s[i]) THEN s[i] ELSE "_"]

sanitize_name(s0) ==
    LET s1 == strip(s0)
        s2 == non_ident_to_underscore(s1)
        s3 == strip_underscores(collapse_underscores(s2))
        s4 == IF s3 = <<>> THEN <<"I", "M", "G">> ELSE s3
    IN  IF IsDigit(s4[1]) THEN <<"I", "M", "G", "_">> \o s4 ELSE s4

\* label_colon_re = ^\s*([A-Za-z_][A-Za-z0-9_]*)\s*:\s*$
label_colon_match(line) ==
    LET a == SkipWhile(line, 1, IsSpace)
        b == SkipWhile(line, a + 1, IsIdentChar)
        c == SkipWhile(line, b, IsSpace)
        d == SkipWhile(line, c + 1, IsSpace)
    IN  IF /\ IsIdentStart(CharAt(line, a))
           /\ CharAt(line, c) = ":"
           /\ d = Len(line) + 1
        THEN [ok |-> TRUE, name |-> SubSeq(line, a, b - 1)]
        ELSE [ok |-> FALSE, name |-> <<>>]

\* label_solo_re = ^\s*([A-Za-z_][A-Za-z0-9_]*)\s*$
label_solo_match(line) ==
    LET a == SkipWhile(line, 1, IsSpace)
        b == SkipWhile(line, a + 1, IsIdentChar)
        c == SkipWhile(line, b, IsSpace)
    IN  IF IsIdentStart(CharAt(line, a)) /\ c = Len(line) + 1
        THEN [ok |-> TRUE, name |-> SubSeq(line, a, b - 1)]
        ELSE [ok |-> FALSE, name |-> <<>>]

\* data_re = \b(db|defb)\b(.*)$ with IGNORECASE, tried at position i:
\* the length of the keyword matched there, 0 when none
data_match_at(s, i) ==
    IF ~Boundary(s, i) THEN 0
    ELSE IF i + 1 <= Len(s) /\ lower(SubSeq(s, i, i + 1)) = <<"d", "b">> /\ Boundary(s, i + 2)
        THEN 2
    ELSE IF i + 3 <= Len(s) /\ lower(SubSeq(s, i, i + 3)) = <<"d", "e", "f", "b">> /\ Boundary(s, i + 4)
        THEN 4
    ELSE 0

\* data_re.search(s): the leftmost match; tail is group(2)
data_search(s) ==
    LET hits == {i \in 1..Len(s) : data_match_at(s, i) > 0}
    IN  IF hits = {} THEN [ok |-> FALSE, tail |-> <<>>]
        ELSE LET i == SetMin(hits)
             IN  [ok |-> TRUE, tail |-> SubSeq(s, i + data_match_at(s, i), Len(s))]

\* ink_re = \bINK\s+(\d+)\s*,\s*(\d+)\b with IGNORECASE, tried at position i
ink_match_at(s, i) ==
    LET a == i + 3
        b == SkipWhile(s, a, IsSpace)
        c == SkipWhile(s, b, IsDigit)
        d == SkipWhile(s, c, IsSpace)
        e == SkipWhile(s, d + 1, IsSpace)
        g == SkipWhile(s, e, IsDigit)
    IN  IF /\ Boundary(s, i)
           /\ i + 2 <= Len(s) /\ lower(SubSeq(s, i, i + 2)) = <<"i", "n", "k">>
           /\ b > a /\ c > b
           /\ CharAt(s, d) = ","
           /\ g > e
           /\ Boundary(s, g)
        THEN [ok |-> TRUE, pen |-> IntOf(SubSeq(s, b, c - 1), 10, 0),
              ink |-> IntOf(SubSeq(s, e, g - 1), 10, 0)]
        ELSE [ok |-> FALSE, pen |-> 0, ink |-> 0]

\* ink_re.search(s): the leftmost match
ink_search(s) ==
    LET hits == {i \in 1..Len(s) : ink_match_at(s, i).ok}
    IN  IF hits = {} THEN [ok |-> FALSE, pen |-> 0, ink |-> 0]
        ELSE ink_match_at(s, SetMin(hits))

RECURSIVE findall_tokens(_, _)
\* re.findall(r"(&[0-9A-Fa-f]+|0x[0-9A-Fa-f]+|\$[0-9A-Fa-f]+|-?\d+)", s), from i on
findall_tokens(s, i) ==
    IF i > Len(s) THEN <<>>
    ELSE LET c == s[i]
             e == IF (c = "&" \/ c = "$") /\ IsHex(CharAt(s, i + 1))
                      THEN SkipWhile(s, i + 1, IsHex)
                  ELSE IF c = "0" /\ CharAt(s, i + 1) = "x" /\ IsHex(CharAt(s, i + 2))
                      THEN SkipWhile(s, i + 2, IsHex)
                  ELSE IF c = "-" /\ IsDigit(CharAt(s, i + 1))
                      THEN SkipWhile(s, i + 1, IsDigit)
                  ELSE IF IsDigit(c)
                      THEN SkipWhile(s, i, IsDigit)
                  ELSE 0
         IN  IF e = 0 THEN findall_tokens(s, i + 1)
             ELSE <<SubSeq(s, i, e - 1)>> \o findall_tokens(s, e)

\* if n is not None: append(n & 0xFF)
byte_of(n) == IF n.ok THEN <<n.val % 256>> ELSE <<>>

RECURSIVE bytes_of_tokens(_)
\* for t in tokens: n = parse_num(t); if n is not None: append(n & 0xFF)
bytes_of_tokens(tokens) ==
    IF tokens = <<>> THEN <<>>
    ELSE byte_of(parse_num(Head(tokens))) \o bytes_of_tokens(Tail(tokens))

\* the bytes one line adds to db_bytes
data_bytes(m_data) ==
    IF m_data.ok THEN bytes_of_tokens(findall_tokens(m_data.tail, 1)) ELSE <<>>

line_bytes(line) == data_bytes(data_search(before_semicolon(line)))

\* pen_to_ink after one line is scanned for an INK hint
set_ink(pen_to_ink, m_ink) ==
    IF m_ink.ok THEN (m_ink.pen :> m_ink.ink) @@ pen_to_ink ELSE pen_to_ink

line_ink(pen_to_ink, line) == set_ink(pen_to_ink, ink_search(line))

EmptyDict == [x \in {} |-> 0]

RESERVED_WORDS ==
    {<<"d", "b">>, <<"d", "e", "f", "b">>, <<"d", "w">>, <<"d", "e", "f", "w">>, <<"e", "q", "u">>, <<"o", "r", "g">>, <<"i", "n", "c", "l", "u", "d", "e">>,
     <<"s", "e", "c", "t", "i", "o", "n">>, <<"m", "a", "c", "r", "o">>, <<"e", "n", "d", "m">>}

\* next_relevant_line(idx), idx being the 1-based index of the current line
next_relevant_line(lines, idx) ==
    LET later == {j \in (idx + 1)..Len(lines) : strip(lines[j]) # <<>>}
    IN  IF later = {} THEN <<>> ELSE strip(lines[SetMin(later)])

looks_like_block_start(nxt) ==
    \/ startswith(nxt, <<";", "-", "-", "-", "-", "-", "-">>) /\ contains(upper(nxt), <<"B", "E", "G", "I", "N">>)
    \/ data_search(nxt).ok

\* whether line i starts a block, and with which label
label_at(lines, i) ==
    LET m == label_colon_match(lines[i])
        m2 == label_solo_match(lines[i])
    IN  IF m.ok THEN m
        ELSE IF /\ m2.ok
                /\ lower(m2.name) \notin RESERVED_WORDS
                /\ looks_like_block_start(next_relevant_line(lines, i))
            THEN m2
        ELSE [ok |-> FALSE, name |-> <<>>]

NewBlock(lbl) == [label |-> lbl, db_bytes |-> <<>>, pen_to_ink |-> EmptyDict]

\* lines 176-190: what a line inside a block adds to it
add_line(cur, line) ==
    [cur EXCEPT !.pen_to_ink = line_ink(cur.pen_to_ink, line),
                !.db_bytes = cur.db_bytes \o line_bytes(line)]

\* lab is label_at for the line; st.current is <<>> (None) or <<block>>
apply_line(line, st, lab) ==
    IF lab.ok
    THEN [blks |-> st.blks \o st.current, current |-> <<NewBlock(lab.name)>>]
    ELSE IF st.current = <<>>
    THEN st
    ELSE [st EXCEPT !.current = <<add_line(st.current[1], line)>>]

\* one iteration of the while loop of parse_blocks_from_asm on line i
parse_line(lines, i, st) == apply_line(lines[i], st, label_at(lines, i))

RECURSIVE parse_loop(_, _, _, _)
\* the while loop over the lines lo..hi; a range of several lines is run as
\* its first half, then its second half (the CASE has the first half
\* evaluated before the second starts)
parse_loop(lines, lo, hi, st) ==
    IF hi < lo THEN st
    ELSE IF hi = lo THEN parse_line(lines, lo, st)
    ELSE LET mid == (lo + hi) \div 2
             first == parse_loop(lines, lo, mid, st)
         IN  CASE Len(first.blks) >= 0 -> parse_loop(lines, mid + 1, hi, first)

RECURSIVE whole_file_inks(_, _, _)
whole_file_inks(lines, i, pen_to_ink) ==
    IF i > Len(lines) THEN pen_to_ink
    ELSE whole_file_inks(lines, i + 1, line_ink(pen_to_ink, lines[i]))

RECURSIVE whole_file_bytes(_, _)
whole_file_bytes(lines, i) ==
    IF i > Len(lines) THEN <<>>
    ELSE line_bytes(lines[i]) \o whole_file_bytes(lines, i + 1)

close_blocks_dropped(st) == st.blks

\* lines 194-195
close_blocks(st) == st.blks \o st.current

\* lines 197-217: found # <<>> is saw_any_label
blocks_or_whole_file(lines, found) ==
    IF found # <<>> THEN found
    ELSE << [label |-> <<"I", "M", "G">>,
             db_bytes |-> whole_file_bytes(lines, 1),
             pen_to_ink |-> whole_file_inks(lines, 1, EmptyDict)] >>

\* text.splitlines() is the sequence of lines itself
parse_blocks_from_asm(lines) ==
    blocks_or_whole_file(lines,
        close_blocks(parse_loop(lines, 1, Len(lines), [blks |-> <<>>, current |-> <<>>])))

(***************************************************************************)
(* png2asm.py: safe_label, convert_png_to_rows.                            *)
(* An image is [w, h, px]: px[y + 1][x + 1] is the RGBA tuple of pixel     *)
(* (x, y) of the image as to_rgba() returns it.  An Optional[int]          *)
(* argument is <<>> (None) or <<n>>.                                       *)
(***************************************************************************)
\* os.path.splitext(p)[0]
splitext_root(p) ==
    LET seps == {i \in 1..Len(p) : p[i] = "/"}
        dots == {i \in 1..Len(p) : p[i] = "."}
        sepIndex == IF seps = {} THEN 0 ELSE SetMax(seps)
        dotIndex == IF dots = {} THEN 0 ELSE SetMax(dots)
    IN  IF dotIndex > sepIndex
           /\ \E i \in (sepIndex + 1)..(dotIndex - 1) : p[i] # "."
        THEN SubSeq(p, 1, dotIndex - 1)
        ELSE p

\* rel is os.path.relpath(path, base_dir)
safe_label(rel) ==
    LET s == non_ident_to_underscore(splitext_root(rel))
    IN  IF s # <<>> /\ IsDigit(s[1]) THEN <<"i", "m", "g", "_">> \o s ELSE s

ink_or_fallback_noflag(rgb, try) ==
    IF try.raised
    THEN [ink |-> nearest_ink(rgb, -1).ink, fallback |-> FALSE]
    ELSE [ink |-> try.ink, fallback |-> FALSE]

\* lines 190-198: try is what nearest_ink((r, g, b), tol) did
ink_or_fallback(rgb, try) ==
    IF try.raised
    THEN [ink |-> nearest_ink(rgb, -1).ink, fallback |-> TRUE]
    ELSE [ink |-> try.ink, fallback |-> FALSE]

\* lines 186-198: the ink of one pixel, and whether the fallback was taken
pixel_ink(p, tol, transparent_ink) ==
    IF p[4] = 0 /\ transparent_ink # <<>>
    THEN [ink |-> transparent_ink[1], fallback |-> FALSE]
    ELSE ink_or_fallback(<<p[1], p[2], p[3]>>, nearest_ink(<<p[1], p[2], p[3]>>, tol))

registered_never(used_inks, i) == FALSE

\* i in ink_to_pen
registered(used_inks, i) == \E k \in 1..Len(used_inks) : used_inks[k] = i

RECURSIVE scan_row(_, _, _)
\* the loop over x of one row, from pixel x (0-based) on, with register_ink
scan_row(row, x, used_inks) ==
    IF x >= Len(row) THEN used_inks
    ELSE IF registered(used_inks, row[x + 1].ink)
    THEN scan_row(row, x + 1, used_inks)
    ELSE scan_row(row, x + 1, Append(used_inks, row[x + 1].ink))

RECURSIVE scan_pixels(_, _, _, _)
\* the loop over y for the rows lo..hi-1 (0-based); a range of several rows
\* is scanned as its first half, then its second half (the CASE has the
\* first half evaluated before the second starts)
scan_pixels(grid, lo, hi, used_inks) ==
    IF hi <= lo THEN used_inks
    ELSE IF hi = lo + 1 THEN scan_row(grid[lo + 1], 0, used_inks)
    ELSE LET mid == (lo + hi) \div 2
             first == scan_pixels(grid, lo, mid, used_inks)
         IN  CASE Len(first) >= 0 -> scan_pixels(grid, mid, hi, first)

\* ink_to_pen[ink]
pen_of(used_inks, ink) == (CHOOSE k \in 1..Len(used_inks) : used_inks[k] = ink) - 1

too_many_inks_ge(n, colors) == n >= colors

\* len(used_inks) > spec.colors
too_many_inks(n, colors) == n > colors

NoConv ==
    [raised |-> TRUE, error |-> "not called", width_bytes |-> 0, height |-> 0,
     rows |-> <<>>, used_inks |-> <<>>, auto_tol_used |-> FALSE]

\* lines 184-201: the ink and the fallback flag of every pixel
pixel_grid(img, tol, transparent_ink) ==
    [y \in 1..img.h |-> [x \in 1..img.w |-> pixel_ink(img.px[y][x], tol, transparent_ink)]]

\* lines 208-227
pack_rows(spec, grid, used_inks) ==
    [y \in 1..Len(grid) |->
        [xb \in 1..(Len(grid[y]) \div spec.px_per_byte) |->
            PackPens(spec.mode,
                     [i \in 1..spec.px_per_byte |->
                         pen_of(used_inks, grid[y][(xb - 1) * spec.px_per_byte + i].ink)])]]

\* lines 203-229, used_inks being what the loop over the pixels left
convert_scanned(img, spec, grid, used_inks) ==
    IF too_many_inks(Len(used_inks), spec.colors)
    THEN [NoConv EXCEPT !.error = "colors"]
    ELSE [raised |-> FALSE, error |-> "", width_bytes |-> img.w \div spec.px_per_byte,
          height |-> img.h, rows |-> pack_rows(spec, grid, used_inks),
          used_inks |-> used_inks,
          auto_tol_used |-> \E y \in 1..img.h : \E x \in 1..img.w : grid[y][x].fallback]

\* lines 184-229, grid being the ink of every pixel
convert_grid(img, spec, grid) ==
    convert_scanned(img, spec, grid, scan_pixels(grid, 0, img.h, <<>>))

convert_png_to_rows(img, spec, tol, transparent_ink) ==
    IF img.w % spec.px_per_byte # 0
    THEN [NoConv EXCEPT !.error = "width"]
    ELSE convert_grid(img, spec, pixel_grid(img, tol, transparent_ink))

(***************************************************************************)
(* png2asm.py main: what one image adds to the output file.                *)
(***************************************************************************)
db_line(row) == <<" ", " ", "d", "b", " ">> \o join(<<",", " ">>, [i \in 1..Len(row) |-> str(row[i])])

ink_line(pen, ink) == <<" ", " ", ";", " ", "I", "N", "K", " ">> \o str(pen) \o <<",">> \o str(ink)

NOTE_LINE == <<";", " ", "(", "n", "o", "t", "a", ")", " ", "s", "e", " ", "u", "s", "o_acute", " ", "f", "a", "l", "l", "b", "a", "c", "k", " ", "d", "e", " ", "t", "o", "l", "e", "r", "a", "n", "c", "i", "a", " ", "(", "e", "q", "u", "i", "v", ".", " ", "-", "-", "t", "o", "l", " ", "-", "1", ")", " ", "e", "n", " ", "a", "l", "g", "u_acute", "n", " ", "p", "i_acute", "x", "e", "l">>
BEGIN_LINE == <<";", "-", "-", "-", "-", "-", "-", " ", "B", "E", "G", "I", "N", " ", "I", "M", "A", "G", "E", " ", "-", "-", "-", "-", "-", "-", "-", "-">>
END_LINE == <<";", "-", "-", "-", "-", "-", "-", " ", "E", "N", "D", " ", "I", "M", "A", "G", "E", " ", "-", "-", "-", "-", "-", "-", "-", "-">>
PALETTE_LINE == <<" ", " ", ";", " ", "P", "a", "l", "e", "t", "a", " ", "(", "P", "E", "N", " ", "-", ">", " ", "I", "N", "K", ")", " ", "d", "e", "t", "e", "c", "t", "a", "d", "a", " ", "e", "n", " ", "e", "l", " ", "P", "N", "G">>
INDEX_LINE == <<";", " ", "-", "-", "-", " ", "I_acute", "n", "d", "i", "c", "e", " ", "d", "e", " ", "l", "a", "b", "e", "l", "s", " ", "-", "-", "-">>

\* lines 293-305
block_lines(label, c) ==
    (IF c.auto_tol_used THEN <<NOTE_LINE>> ELSE <<>>)
    \o <<upper(label)>>
    \o <<BEGIN_LINE>>
    \o <<<<" ", " ", "d", "b", " ">> \o str(c.width_bytes) \o <<" ", ";", " ", "a", "n", "c", "h", "o", " ", "e", "n", " ", "b", "y", "t", "e", "s">>>>
    \o <<<<" ", " ", "d", "b", " ">> \o str(c.height) \o <<" ", ";", " ", "a", "l", "t", "o">>>>
    \o [y \in 1..Len(c.rows) |-> db_line(c.rows[y])]
    \o <<END_LINE>>
    \o <<PALETTE_LINE>>
    \o [pen \in 1..Len(c.used_inks) |-> ink_line(pen - 1, c.used_inks[pen])]
    \o << <<>> >>

\* lines 331-336
index_lines(files) ==
    <<INDEX_LINE>>
    \o [i \in 1..Len(files) |->
            <<";", " ">> \o safe_label(files[i].rel) \o <<" ", "=", " ">> \o files[i].rel]

ok_row(rel, label, c, spec) ==
    [PNG |-> rel, Label |-> label,
     Size |-> str(c.width_bytes * spec.px_per_byte) \o <<"x">> \o str(c.height),
     BytesLine |-> str(c.width_bytes), Colors |-> str(Len(c.used_inks)),
     Fallback |-> IF c.auto_tol_used THEN "si" ELSE "no", Status |-> <<"OK">>]

error_row(rel, label, c) ==
    [PNG |-> rel, Label |-> label, Size |-> <<"-">>, BytesLine |-> <<"-">>,
     Colors |-> <<"-">>, Fallback |-> "-", Status |-> <<"ERROR: ", c.error>>]

(***************************************************************************)
(* asm2pngs.py: decode_block_to_png.                                       *)
(***************************************************************************)
clamp_ink_off(ink) == ink

\* max(0, min(26, int(ink)))
clamp_ink(ink) == Max2(0, Min2(26, ink))

pen_to_rgba(pen_to_ink, bg_ink, pen) ==
    LET ink0 == IF pen \in DOMAIN pen_to_ink THEN pen_to_ink[pen]
                ELSE IF bg_ink # <<>> THEN bg_ink[1] ELSE pen
        ink == clamp_ink(ink0)
        rgb == IF ink \in DOMAIN asm2pngs_INK_RGB THEN asm2pngs_INK_RGB[ink] ELSE <<0, 0, 0>>
    IN  <<rgb[1], rgb[2], rgb[3], 255>>

\* lines 240-245
decode_geometry(mode) ==
    IF mode = 0 THEN [px_per_byte |-> 2, max_pens |-> 16]
    ELSE IF mode = 1 THEN [px_per_byte |-> 4, max_pens |-> 4]
    ELSE [px_per_byte |-> 8, max_pens |-> 2]

NoImage == [w |-> 0, h |-> 0, px |-> <<>>]

short_of_data_le(db_bytes) == Len(db_bytes) - 2 <= db_bytes[1] * db_bytes[2]

\* lines 229-234: len(data) < needed
short_of_data(db_bytes) == Len(db_bytes) - 2 < db_bytes[1] * db_bytes[2]

\* save_fails: whether img.save() raises.  Pillow decides that; the model
\* lets it happen only for an image without pixels.
decode_block_to_png(block, mode, bg_ink, save_fails) ==
    LET db_bytes == block.db_bytes
        width_bytes == db_bytes[1]
        height == db_bytes[2]
        data0 == SubSeq(db_bytes, 3, Len(db_bytes))
        needed == width_bytes * height
        data == SubSeq(data0, 1, needed)
        g == decode_geometry(mode)
        width_px == width_bytes * g.px_per_byte
        pen_at(x, y) ==
            LET b == data[(y - 1) * width_bytes + ((x - 1) \div g.px_per_byte) + 1] % 256
                pen == DecodeByte("asm2pngs", mode, b)[((x - 1) % g.px_per_byte) + 1]
            IN  IF pen >= g.max_pens THEN pen % g.max_pens ELSE pen
        img == [w |-> width_px, h |-> height,
                px |-> [y \in 1..height |->
                          [x \in 1..width_px |->
                              pen_to_rgba(block.pen_to_ink, bg_ink, pen_at(x, y))]]]
    IN  IF Len(db_bytes) < 2
        THEN [raised |-> TRUE, error |-> "header", wpx |-> 0, hpx |-> 0, img |-> NoImage]
        ELSE IF short_of_data(db_bytes)
        THEN [raised |-> TRUE, error |-> "data", wpx |-> 0, hpx |-> 0, img |-> NoImage]
        ELSE IF save_fails
        THEN [raised |-> TRUE, error |-> "save", wpx |-> 0, hpx |-> 0, img |-> NoImage]
        ELSE [raised |-> FALSE, error |-> "", wpx |-> width_px, hpx |-> height, img |-> img]

\* the images img.save() may refuse
MaySaveFail(block) ==
    /\ Len(block.db_bytes) >= 2
    /\ block.db_bytes[1] * block.db_bytes[2] = 0

(***************************************************************************)
(* File names and their order (iter_pngs and iter_asms sort their result). *)
(***************************************************************************)
ASCII_ORDER == <<" ", "!", "#", "$", "%", "&", "'", "(", ")", "*", "+", ",", "-", ".", "/", "0", "1", "2", "3", "4", "5", "6", "7", "8", "9", ":", ";", "<", "=", ">", "?", "A", "B", "C", "D", "E", "F", "G", "H", "I", "J", "K", "L", "M", "N", "O", "P", "Q", "R", "S", "T", "U", "V", "W", "X", "Y", "Z", "[", "]", "^", "_", "a", "b", "c", "d", "e", "f", "g", "h", "i", "j", "k", "l", "m", "n", "o", "p", "q", "r", "s", "t", "u", "v", "w", "x", "y", "z", "{", "|", "}", "~">>
Ord(c) == CHOOSE i \in 1..Len(ASCII_ORDER) : ASCII_ORDER[i] = c

RECURSIVE StrLess(_, _)
\* a < b for Python strings
StrLess(a, b) ==
    IF b = <<>> THEN FALSE
    ELSE IF a = <<>> THEN TRUE
    ELSE IF Head(a) = Head(b) THEN StrLess(Tail(a), Tail(b))
    ELSE Ord(Head(a)) < Ord(Head(b))

RECURSIVE SortedInsert(_, _)
SortedInsert(files, x) ==
    IF files = <<>> THEN <<x>>
    ELSE IF StrLess(x.name, Head(files).name) THEN <<x>> \o files
    ELSE <<Head(files)>> \o SortedInsert(Tail(files), x)

RECURSIVE SortFiles(_)
\* out.sort() over the files of a directory
SortFiles(files) ==
    IF files = <<>> THEN <<>> ELSE SortedInsert(SortFiles(Tail(files)), Head(files))

OUT_ASM == <<"o", "u", "t", ".", "a", "s", "m">>
(***************************************************************************)
(* asm2png.py: the geometry heuristic of the single-image decoder.         *)
(* rows are the db/defb lines that hold numbers, flat their concatenation. *)
(***************************************************************************)
\* from_second.count(v)
list_count(lens, v) == Cardinality({i \in 1..Len(lens) : lens[i] = v})

lengths_of(rows) == [i \in 1..Len(rows) |-> Len(rows[i])]

\* max(set(lens), key=lens.count): max returns the first element of highest
\* count in the set's iteration order, which for integers below 8 is
\* ascending (hash(n) = n, the table has at least 8 slots)
most_common(lens) ==
    CHOOSE w \in Range(lens) :
        /\ \A v \in Range(lens) : list_count(lens, v) <= list_count(lens, w)
        /\ \A v \in Range(lens) : list_count(lens, v) = list_count(lens, w) => w <= v

short_first_row_never(rows) == FALSE

\* line 124
short_first_row(rows) == Len(rows) >= 2 /\ Len(rows[1]) = 2 /\ Len(rows[2]) >= 4

\* lines 114-127: heuristic A returns
header_chosen(rows, flat) ==
    /\ Len(flat) >= 2
    /\ 1 <= flat[1] /\ flat[1] <= 255 /\ 1 <= flat[2] /\ flat[2] <= 255
    /\ Len(flat) >= 2 + flat[1] * flat[2]
    /\ ~short_first_row(rows)

\* line 140, common_w being the most common length from the second row on
first_row_is_meta(lens, common_w) ==
    /\ lens[1] < common_w
    /\ list_count(Tail(lens), common_w) >= Max2(2, Len(Tail(lens)) \div 2)

\* lines 134-145
img_rows_of(rows) ==
    IF Len(rows) >= 3 /\ first_row_is_meta(lengths_of(rows), most_common(Tail(lengths_of(rows))))
    THEN Tail(rows)
    ELSE rows

\* (r + [0]*width_bytes)[:width_bytes]
fix_row(r, width_bytes) == SubSeq(r \o [i \in 1..width_bytes |-> 0], 1, width_bytes)

\* lines 149-152; every row of rows holds at least one byte
lines_result(img_rows, width_bytes) ==
    [raised |-> FALSE, fmt |-> "lines", width_bytes |-> width_bytes,
     height |-> Len(img_rows),
     data |-> Flatten([i \in 1..Len(img_rows) |-> fix_row(img_rows[i], width_bytes)])]

\* lines 147-152
lines_format(img_rows) == lines_result(img_rows, most_common(lengths_of(img_rows)))

NoGuess == [raised |-> TRUE, fmt |-> "", width_bytes |-> 0, height |-> 0, data |-> <<>>]

guess_format(rows, flat) ==
    IF header_chosen(rows, flat)
    THEN [raised |-> FALSE, fmt |-> "header", width_bytes |-> flat[1], height |-> flat[2],
          data |-> SubSeq(flat, 3, 2 + flat[1] * flat[2])]
    ELSE IF rows = <<>>
    THEN NoGuess
    ELSE lines_format(img_rows_of(rows))

(***************************************************************************)
(* Harness of guess_format: one call on the rows of one document.          *)
(***************************************************************************)
MaxRows == 5
RowLens == {1, 2, 4}
\* the first two bytes of the document
Heads == {<<2, 3>>, <<9, 9>>, <<0, 4>>, <<1, 1>>, <<4, 2>>}
Fills == {"run", "row"}

\* number of bytes before row r
Offset(lens, r) == IF r = 1 THEN 0 ELSE Len(Flatten([i \in 1..(r - 1) |-> [k \in 1..lens[i] |-> 0]]))

\* the first two bytes are head; the others count up along the document
\* ("run") or along their row ("row")
RowsOf(lens, head, fill) ==
    [r \in 1..Len(lens) |->
        [k \in 1..lens[r] |->
            IF Offset(lens, r) + k <= 2 THEN head[Offset(lens, r) + k]
            ELSE IF fill = "run" THEN (Offset(lens, r) + k - 2) % 256
            ELSE k]]

GuessOff == [pc |-> "off", rows |-> <<>>, flat |-> <<>>, res |-> NoGuess]

GuessInputs ==
    UNION {{[pc |-> "in", rows |-> RowsOf(lens, head, fill),
             flat |-> Flatten(RowsOf(lens, head, fill)), res |-> NoGuess] :
                lens \in [1..n -> RowLens], head \in Heads, fill \in Fills} : n \in 0..MaxRows}

GuessCall ==
    /\ guess.pc = "in"
    /\ guess' = [guess EXCEPT !.pc = "out", !.res = guess_format(guess.rows, guess.flat)]

(***************************************************************************)
(* png2asm.py main, then asm2pngs.py main over the ASM directory.          *)
(*   pc = "p2a_start"  png2asm is about to open the output file            *)
(*   pc = "p2a_loop"   png2asm is in its loop over pngs, pi images done    *)
(*   pc = "p2a_done"   png2asm has closed the file and printed the summary *)
(*   pc = "a2p_file"   asm2pngs is in its loop over asms, ai files done    *)
(*   pc = "a2p_block"  asm2pngs is in its loop over blocks, bi blocks done *)
(*   pc = "done"       asm2pngs has printed its summary                    *)
(***************************************************************************)
P2A_Open ==
    /\ pc = "p2a_start"
    /\ f' = <<<<";", " ", "M", "O", "D", "E", " ">> \o str(MODE_SPECS[args.mode].mode), <<>> >>
    /\ summary' = <<>>
    /\ converted_ok' = 0
    /\ converted_fail' = 0
    /\ pc' = "p2a_loop"
    /\ UNCHANGED <<args, pngs, pi, conv, asm_dir, asms, ai, blocks, bi,
                   dsummary, ok, fail, total_blocks, saved>>

count_skip(n) == n

\* converted_ok += 1, converted_fail += 1, ok += 1, fail += 1
count(n) == n + 1

\* one iteration of the loop over pngs: the try block and its except
P2A_Image ==
    /\ pc = "p2a_loop"
    /\ pi < Len(pngs)
    /\ \E c \in {convert_png_to_rows(pngs[pi + 1].img, MODE_SPECS[args.mode],
                                      args.tol, args.transparent_ink)} :
       \E label \in {safe_label(pngs[pi + 1].rel)} :
           /\ conv' = c
           /\ IF ~c.raised
              THEN /\ f' = f \o block_lines(label, c)
                   /\ summary' = Append(summary, ok_row(pngs[pi + 1].rel, label, c,
                                                        MODE_SPECS[args.mode]))
                   /\ converted_ok' = count(converted_ok)
                   /\ UNCHANGED converted_fail
              ELSE /\ summary' = Append(summary, error_row(pngs[pi + 1].rel, label, c))
                   /\ converted_fail' = count(converted_fail)
                   /\ UNCHANGED <<f, converted_ok>>
    /\ pi' = pi + 1
    /\ UNCHANGED <<args, pngs, pc, asm_dir, asms, ai, blocks, bi, dsummary, ok,
                   fail, total_blocks, saved>>

\* after the loop: the index of labels; the file is closed, the summary printed
P2A_Index ==
    /\ pc = "p2a_loop"
    /\ pi = Len(pngs)
    /\ f' = f \o index_lines(pngs)
    /\ asm_dir' = SortFiles(asm_dir \o <<[name |-> OUT_ASM, text |-> f']>>)
    /\ pc' = "p2a_done"
    /\ UNCHANGED <<args, pngs, pi, summary, converted_ok, converted_fail, conv,
                   asms, ai, blocks, bi, dsummary, ok, fail, total_blocks, saved>>

\* asm2pngs main up to its loop
A2P_Start ==
    /\ pc = "p2a_done"
    /\ asms' = SortFiles(asm_dir)
    /\ asms' # <<>>
    /\ dsummary' = <<>>
    /\ ok' = 0
    /\ fail' = 0
    /\ total_blocks' = 0
    /\ ai' = 0
    /\ pc' = "a2p_file"
    /\ UNCHANGED <<args, pngs, pi, f, summary, converted_ok, converted_fail,
                   conv, asm_dir, blocks, bi, saved>>

\* the head of one iteration over asms: read and parse the file
A2P_File ==
    /\ pc = "a2p_file"
    /\ ai < Len(asms)
    /\ blocks' = parse_blocks_from_asm(asms[ai + 1].text)
    /\ total_blocks' = total_blocks + Len(blocks')
    /\ bi' = 0
    /\ pc' = IF blocks' = <<>> THEN "a2p_file" ELSE "a2p_block"
    /\ ai' = IF blocks' = <<>> THEN ai + 1 ELSE ai
    /\ UNCHANGED <<args, pngs, pi, f, summary, converted_ok, converted_fail,
                   conv, asm_dir, asms, dsummary, ok, fail, saved>>

\* f"{label}.png" (no --prefix-file)
png_name(label) == label \o <<".", "p", "n", "g">>

\* one iteration of the loop over blocks: the try block and its except
A2P_Block ==
    /\ pc = "a2p_block"
    /\ bi < Len(blocks)
    /\ \E label \in {upper(sanitize_name(blocks[bi + 1].label))} :
       \E save_fails \in (IF MaySaveFail(blocks[bi + 1]) THEN BOOLEAN ELSE {FALSE}) :
       \E d \in {decode_block_to_png(blocks[bi + 1], args.mode, args.bg_ink, save_fails)} :
           IF ~d.raised
           THEN /\ saved' = Append(saved, [path |-> png_name(label), img |-> d.img])
                /\ dsummary' = Append(dsummary,
                      [ASM |-> asms[ai + 1].name, LABEL |-> label, PNG |-> png_name(label),
                       SIZE |-> str(d.wpx) \o <<"x">> \o str(d.hpx), STATUS |-> <<"OK">>])
                /\ ok' = count(ok)
                /\ UNCHANGED fail
           ELSE /\ dsummary' = Append(dsummary,
                      [ASM |-> asms[ai + 1].name, LABEL |-> label, PNG |-> png_name(label),
                       SIZE |-> <<"-">>, STATUS |-> <<"ERROR: ", d.error>>])
                /\ fail' = count(fail)
                /\ UNCHANGED <<ok, saved>>
    /\ bi' = bi + 1
    /\ pc' = IF bi + 1 = Len(blocks) THEN "a2p_file" ELSE "a2p_block"
    /\ ai' = IF bi + 1 = Len(blocks) THEN ai + 1 ELSE ai
    /\ UNCHANGED <<args, pngs, pi, f, summary, converted_ok, converted_fail,
                   conv, asm_dir, asms, blocks, total_blocks>>

\* after the loop over asms: the totals and the summary are printed
A2P_Done ==
    /\ pc = "a2p_file"
    /\ ai = Len(asms)
    /\ pc' = "done"
    /\ UNCHANGED <<args, pngs, pi, f, summary, converted_ok, converted_fail,
                   conv, asm_dir, asms, ai, blocks, bi, dsummary, ok, fail,
                   total_blocks, saved>>

(***************************************************************************)
(* Inputs of the batch pipeline: images, file names, command lines and     *)
(* hand-written ASM files already present in the ASM directory.            *)
(***************************************************************************)
NumColours == 5
MaxH == 2
TallH == 256
MaxImages == 2

K_BLACK == <<0, 0, 0, 255>>
K_WHITE == <<255, 255, 255, 255>>
K_NEAR == <<6, 0, 0, 255>>
K_FAR == <<64, 0, 0, 255>>
K_CLEAR == <<255, 0, 0, 0>>
K_GREY == <<128, 128, 128, 255>>
TileColours == <<K_BLACK, K_WHITE, K_NEAR, K_FAR, K_CLEAR, K_GREY>>

Modes == DOMAIN MODE_SPECS
Ppb(m) == MODE_SPECS[m].px_per_byte

\* row y is the tile repeated along the row, shifted by one pixel per row
TileImage(m, tile, h) ==
    [w |-> Ppb(m), h |-> h,
     px |-> [y \in 1..h |-> [x \in 1..Ppb(m) |->
                TileColours[tile[(((x - 1) + (y - 1)) % Len(tile)) + 1]]]]]

Opaque(ink) == <<INK_RGB[ink][1], INK_RGB[ink][2], INK_RGB[ink][3], 255>>

\* the inks 0..n-1 in row-major order, one pixel each, padded with ink 0
Ramp(m, n) ==
    LET w == Ppb(m)
        h == (n + w - 1) \div w
    IN  [w |-> w, h |-> h,
         px |-> [y \in 1..h |-> [x \in 1..w |->
                    LET k == (y - 1) * w + (x - 1)
                    IN  Opaque(IF k < n THEN k ELSE 0)]]]

\* one pixel too wide
BadWidth(m) ==
    [w |-> Ppb(m) + 1, h |-> 1, px |-> <<[x \in 1..(Ppb(m) + 1) |-> K_BLACK]>>]

\* a black and white chequerboard, one byte wide
Tall(m, h) ==
    [w |-> Ppb(m), h |-> h,
     px |-> [y \in 1..h |-> [x \in 1..Ppb(m) |->
                IF (x + y) % 2 = 0 THEN K_BLACK ELSE K_WHITE]]]

\* the pairs of the first NumColours colours
Tiles == {<<a, b>> : a, b \in 1..Min2(NumColours, Len(TileColours))}

\* --tol and --transparent-ink
Configs ==
    {[tol |-> 8, tink |-> <<>>], [tol |-> 0, tink |-> <<>>], [tol |-> -1, tink |-> <<>>],
     [tol |-> 8, tink |-> <<5>>], [tol |-> 0, tink |-> <<30>>]}

DefaultConfig == [tol |-> 8, tink |-> <<>>]

SingleImages(m, cfg) ==
    {TileImage(m, t, h) : t \in Tiles, h \in 1..MaxH}
    \cup {Ramp(m, MODE_SPECS[m].colors), Ramp(m, MODE_SPECS[m].colors + 1), BadWidth(m)}
    \cup (IF cfg = DefaultConfig THEN {Tall(m, TallH)} ELSE {})

BatchImages(m) ==
    {TileImage(m, <<1, 2>>, 1), TileImage(m, <<4, 1>>, 1),
     Ramp(m, MODE_SPECS[m].colors), Ramp(m, MODE_SPECS[m].colors + 1), BadWidth(m)}

\* sorted, as iter_pngs returns them
FileNames == <<<<"1", ".", "p", "n", "g">>, <<"f", "-", "2", ".", "p", "n", "g">>, <<"s", "u", "b", "/", "f", "3", ".", "p", "n", "g">>, <<"z", "4", ".", "p", "n", "g">>>>

Batches(m) ==
    {[i \in 1..Len(b) |-> [rel |-> FileNames[i], img |-> b[i]]] :
        b \in UNION {[1..n -> BatchImages(m)] : n \in 1..MaxImages}}

\* a block that decodes in every mode, a label without data, a block whose
\* data is shorter than its header says
EXTRA_ASM ==
    <<<<"S", "P", "R", ":">>, <<" ", "d", "b", " ", "1", ",", " ", "1">>, <<" ", "d", "b", " ", "&", "C", "0">>, <<";", " ", "I", "N", "K", " ", "0", ",", "3">>,
      <<"E", "M", "P", "T", "Y", ":">>, <<"S", "H", "O", "R", "T", ":">>, <<" ", "d", "e", "f", "b", " ", "2", ",", "2", ",", "1">>>>

\* no label at all: the whole file is one block IMG
BARE_ASM == <<<<" ", "d", "b", " ", "1", ",", "1", ",", "2", "5", "5">>>>

AsmDirs ==
    {<<>>,
     <<[name |-> <<"e", "x", "t", "r", "a", ".", "a", "s", "m">>, text |-> EXTRA_ASM]>>,
     <<[name |-> <<"b", "a", "r", "e", ".", "a", "s", "m">>, text |-> BARE_ASM]>>}
(***************************************************************************)
(* Hand-written documents for asm2pngs run on its own: an optional label   *)
(* line, then up to MaxItems lines of AsmPool.  Each entry gives the text  *)
(* of a line next to what it says: its data bytes and its INK hint         *)
(* (<<>> or <<pen, ink>>).                                                 *)
(***************************************************************************)
MaxItems == 2

AsmPool ==
    << [text |-> <<" ", "d", "b", " ", "1", ",", "1">>,                    bytes |-> <<1, 1>>,          hint |-> <<>>],
       [text |-> <<" ", "d", "e", "f", "b", " ", "&", "C", "0">>,                  bytes |-> <<192>>,           hint |-> <<>>],
       [text |-> <<" ", "d", "b", " ", "1", ",", "1", ",", "&", "1", "B", ",", "2", "5", "5", " ", ";", " ", "I", "N", "K", " ", "0", ",", "3">>,  bytes |-> <<1, 1, 27, 255>>, hint |-> <<0, 3>>],
       [text |-> <<" ", "i", "n", "k", " ", "1", " ", ",", " ", "3", "0">>,                bytes |-> <<>>,              hint |-> <<1, 30>>],
       [text |-> <<";", " ", "I", "N", "K", " ", "0", ",", "7">>,                  bytes |-> <<>>,              hint |-> <<0, 7>>] >>

LABEL_LINE == [text |-> <<"B", ":">>, bytes |-> <<>>, hint |-> <<>>]

AsmItems == UNION {[1..n -> 1..Len(AsmPool)] : n \in 0..MaxItems}

AsmDocs ==
    {[i \in 1..Len(items) |-> AsmPool[items[i]].text] : items \in AsmItems}
    \cup
    {<<LABEL_LINE.text>> \o [i \in 1..Len(items) |-> AsmPool[items[i]].text] : items \in AsmItems}

BgInks == {<<>>, <<30>>}

(***************************************************************************)
(* Harness of parse_blocks_from_asm: one call on one text.                 *)
(* A "doc" input is up to MaxLines lines of DocPool; each entry gives the  *)
(* text of a line next to what it is.  A "lit" input is one data line of   *)
(* up to MaxTokens literals of Literals, with or without a label line.     *)
(***************************************************************************)
MaxLines == 3
MaxTokens == 2

DocPool ==
    << [text |-> <<"A", ":">>,                  kind |-> "colon", name |-> <<"A">>,   bytes |-> <<>>,     hint |-> <<>>],
       [text |-> <<" ", "b", "_", "2", " ">>,               kind |-> "solo",  name |-> <<"b", "_", "2">>, bytes |-> <<>>,     hint |-> <<>>],
       [text |-> <<" ", "d", "b", " ", "1", ",", "2">>,             kind |-> "data",  name |-> <<>>,    bytes |-> <<1, 2>>, hint |-> <<>>],
       [text |-> <<"D", "E", "F", "B", " ", "3", " ", ";", " ", "4">>,          kind |-> "data",  name |-> <<>>,    bytes |-> <<3>>,    hint |-> <<>>],
       [text |-> <<";", " ", "I", "N", "K", " ", "0", ",", "3">>,           kind |-> "ink",   name |-> <<>>,    bytes |-> <<>>,     hint |-> <<0, 3>>],
       [text |-> <<>>,                    kind |-> "blank", name |-> <<>>,    bytes |-> <<>>,     hint |-> <<>>],
       [text |-> <<";", "-", "-", "-", "-", "-", "-", " ", "b", "e", "g", "i", "n", " ", "i", "m", "a", "g", "e">>, kind |-> "begin", name |-> <<>>,    bytes |-> <<>>,     hint |-> <<>>],
       [text |-> <<"o", "r", "g">>,                 kind |-> "word",  name |-> <<>>,    bytes |-> <<>>,     hint |-> <<>>] >>

\* numeric literals and their values
Literals ==
    << [text |-> <<"1", "2", "3">>,  val |-> 123],
       [text |-> <<"-", "5">>,   val |-> -5],
       [text |-> <<"&", "7", "F">>,  val |-> 127],
       [text |-> <<"0", "x", "7", "F">>, val |-> 127],
       [text |-> <<"$", "7", "F">>,  val |-> 127],
       [text |-> <<"0", "X", "7", "f">>, val |-> 127],
       [text |-> <<"&", "7", "f">>,  val |-> 127],
       [text |-> <<"0", "x", "1", "b">>, val |-> 27],
       [text |-> <<"$", "f", "F">>,  val |-> 255],
       [text |-> <<"3", "0", "0">>,  val |-> 300] >>

DocInputs == UNION {[1..n -> 1..Len(DocPool)] : n \in 0..MaxLines}
LitInputs == UNION {[1..n -> 1..Len(Literals)] : n \in 1..MaxTokens}

DocText(items) == [i \in 1..Len(items) |-> DocPool[items[i]].text]
LitLine(items) == <<" ", "d", "b", " ">> \o join(<<",">>, [i \in 1..Len(items) |-> Literals[items[i]].text])

ParserOff == [pc |-> "off", kind |-> "doc", items |-> <<>>, lines |-> <<>>, blocks |-> <<>>]

ParserInputs ==
    {[pc |-> "in", kind |-> "doc", items |-> items, lines |-> DocText(items),
      blocks |-> <<>>] : items \in DocInputs}
    \cup
    {[pc |-> "in", kind |-> "lit", items |-> items, lines |-> <<LitLine(items)>>,
      blocks |-> <<>>] : items \in LitInputs}
    \cup
    {[pc |-> "in", kind |-> "litlab", items |-> items,
      lines |-> <<DocPool[1].text, LitLine(items)>>,
      blocks |-> <<>>] : items \in LitInputs}

ParserCall ==
    /\ parser.pc = "in"
    /\ parser' = [parser EXCEPT !.pc = "out",
                                !.blocks = parse_blocks_from_asm(parser.lines)]

(***************************************************************************)
(* The batch pipeline at rest (the harness specifications leave it alone). *)
(***************************************************************************)
BatchRest ==
    /\ pi = 0
    /\ f = <<>>
    /\ summary = <<>>
    /\ converted_ok = 0
    /\ converted_fail = 0
    /\ conv = NoConv
    /\ asms = <<>>
    /\ ai = 0
    /\ blocks = <<>>
    /\ bi = 0
    /\ dsummary = <<>>
    /\ ok = 0
    /\ fail = 0
    /\ total_blocks = 0
    /\ saved = <<>>

BatchOff ==
    /\ args = [mode |-> 0, tol |-> 8, transparent_ink |-> <<>>, bg_ink |-> <<>>]
    /\ pngs = <<>>
    /\ pc = "off"
    /\ asm_dir = <<>>
    /\ BatchRest

InitCodec == codec \in CodecInputs /\ nearest = NearestOff /\ guess = GuessOff /\ parser = ParserOff /\ BatchOff
NextCodec ==
    \/ CodecDecode /\ UNCHANGED <<nearestVars, guessVars, parserVars, batchVars>>
    \/ CodecPackBack /\ UNCHANGED <<nearestVars, guessVars, parserVars, batchVars>>
    \/ CodecPack /\ UNCHANGED <<nearestVars, guessVars, parserVars, batchVars>>
    \/ CodecDecodeBack /\ UNCHANGED <<nearestVars, guessVars, parserVars, batchVars>>
SpecCodec == InitCodec /\ [][NextCodec]_vars

InitInk == nearest \in NearestInputs /\ codec = CodecOff /\ guess = GuessOff /\ parser = ParserOff /\ BatchOff
NextInk == NearestCall /\ UNCHANGED <<codecVars, guessVars, parserVars, batchVars>>
SpecInk == InitInk /\ [][NextInk]_vars

InitGuess ==
    guess \in GuessInputs /\ codec = CodecOff /\ nearest = NearestOff /\ parser = ParserOff /\ BatchOff
NextGuess == GuessCall /\ UNCHANGED <<codecVars, nearestVars, parserVars, batchVars>>
SpecGuess == InitGuess /\ [][NextGuess]_vars

InitParse ==
    parser \in ParserInputs /\ codec = CodecOff /\ nearest = NearestOff /\ guess = GuessOff /\ BatchOff
NextParse == ParserCall /\ UNCHANGED <<codecVars, nearestVars, guessVars, batchVars>>
SpecParse == InitParse /\ [][NextParse]_vars

(***************************************************************************)
(* The batch pipeline: png2asm over a directory of PNGs, then asm2pngs     *)
(* over the ASM directory, in the same mode.                               *)
(***************************************************************************)
Next ==
    \/ P2A_Open /\ UNCHANGED <<codecVars, nearestVars, guessVars, parserVars>>
    \/ P2A_Image /\ UNCHANGED <<codecVars, nearestVars, guessVars, parserVars>>
    \/ P2A_Index /\ UNCHANGED <<codecVars, nearestVars, guessVars, parserVars>>
    \/ A2P_Start /\ UNCHANGED <<codecVars, nearestVars, guessVars, parserVars>>
    \/ A2P_File /\ UNCHANGED <<codecVars, nearestVars, guessVars, parserVars>>
    \/ A2P_Block /\ UNCHANGED <<codecVars, nearestVars, guessVars, parserVars>>
    \/ A2P_Done /\ UNCHANGED <<codecVars, nearestVars, guessVars, parserVars>>

\* batches of several images, next to hand-written ASM files
Init ==
    /\ codec = CodecOff
    /\ nearest = NearestOff
    /\ guess = GuessOff
    /\ parser = ParserOff
    /\ \E m \in Modes :
         /\ args = [mode |-> m, tol |-> DefaultConfig.tol,
                    transparent_ink |-> DefaultConfig.tink, bg_ink |-> <<>>]
         /\ pngs \in Batches(m)
    /\ asm_dir \in AsmDirs
    /\ pc = "p2a_start"
    /\ BatchRest
Spec == Init /\ [][Next]_vars

\* one image per run, under every command line
InitImage ==
    /\ codec = CodecOff
    /\ nearest = NearestOff
    /\ guess = GuessOff
    /\ parser = ParserOff
    /\ \E m \in Modes : \E cfg \in Configs :
         /\ args = [mode |-> m, tol |-> cfg.tol, transparent_ink |-> cfg.tink,
                    bg_ink |-> <<>>]
         /\ \E img \in SingleImages(m, cfg) :
               pngs = <<[rel |-> FileNames[1], img |-> img]>>
    /\ asm_dir = <<>>
    /\ pc = "p2a_start"
    /\ BatchRest
SpecImage == InitImage /\ [][Next]_vars

(***************************************************************************)
(* asm2pngs run on its own over a directory holding one hand-written       *)
(* document.                                                               *)
(***************************************************************************)
NextAsm ==
    \/ A2P_Start /\ UNCHANGED <<codecVars, nearestVars, guessVars, parserVars>>
    \/ A2P_File /\ UNCHANGED <<codecVars, nearestVars, guessVars, parserVars>>
    \/ A2P_Block /\ UNCHANGED <<codecVars, nearestVars, guessVars, parserVars>>
    \/ A2P_Done /\ UNCHANGED <<codecVars, nearestVars, guessVars, parserVars>>

InitAsm ==
    /\ codec = CodecOff
    /\ nearest = NearestOff
    /\ guess = GuessOff
    /\ parser = ParserOff
    /\ \E m \in Modes : \E bg \in BgInks :
         args = [mode |-> m, tol |-> DefaultConfig.tol,
                 transparent_ink |-> DefaultConfig.tink, bg_ink |-> bg]
    /\ pngs = <<>>
    /\ \E doc \in AsmDocs : asm_dir = <<[name |-> <<"d", "o", "c", ".", "a", "s", "m">>, text |-> doc]>>
    /\ pc = "p2a_done"
    /\ BatchRest
SpecAsm == InitAsm /\ [][NextAsm]_vars
(***************************************************************************)
(* Claims about the bit codec, checked under SpecCodec.                    *)
(***************************************************************************)
Bit(x, k) == (x \div (2 ^ k)) % 2

\* C1: in every mode pack and decode are mutually inverse: a byte decoded
\* and packed back is the same byte, and a tuple of px_per_byte pens below
\* max_pens packed and decoded back is the same tuple.
C1_PackDecodeInverse ==
    codec.pc = "done" =>
        /\ codec.kind = "byte" => codec.byte = codec.b0
        /\ codec.kind = "pens" => codec.pens = codec.t0

C1_Witness ==
    /\ codec.pc = "done" /\ codec.kind = "pens" /\ codec.mode = 0
    /\ codec.t0 = <<5, 10>> /\ codec.byte = 165 /\ codec.pens = <<5, 10>>

\* C3: the decoders of asm2pngs.py and asm2png.py reproduce the hardware
\* layout: mode 0 feeds byte bits 7,5,3,1 to pen0 bits 0,2,1,3 and byte bits
\* 6,4,2,0 to pen1 bits 0,2,1,3; mode 1 gives pen_i = 2*bit(7-i) + bit(3-i);
\* mode 2 gives pen_i = bit(7-i).
C3_DecodeLayout ==
    (codec.pc = "mid" /\ codec.kind = "byte") =>
        LET b == codec.b0
            p == codec.pens
        IN  CASE codec.mode = 0 ->
                    /\ Len(p) = 2 /\ p[1] \in 0..15 /\ p[2] \in 0..15
                    /\ Bit(p[1], 0) = Bit(b, 7) /\ Bit(p[1], 2) = Bit(b, 5)
                    /\ Bit(p[1], 1) = Bit(b, 3) /\ Bit(p[1], 3) = Bit(b, 1)
                    /\ Bit(p[2], 0) = Bit(b, 6) /\ Bit(p[2], 2) = Bit(b, 4)
                    /\ Bit(p[2], 1) = Bit(b, 2) /\ Bit(p[2], 3) = Bit(b, 0)
              [] codec.mode = 1 ->
                    /\ Len(p) = 4
                    /\ \A i \in 0..3 : p[i + 1] = 2 * Bit(b, 7 - i) + Bit(b, 3 - i)
              [] codec.mode = 2 ->
                    /\ Len(p) = 8
                    /\ \A i \in 0..7 : p[i + 1] = Bit(b, 7 - i)

C3_Witness ==
    /\ codec.pc = "mid" /\ codec.kind = "byte" /\ codec.tool = "asm2pngs"
    /\ codec.mode = 1 /\ codec.b0 = 132 /\ codec.pens = <<2, 1, 0, 0>>

(***************************************************************************)
(* Claims about nearest_ink, checked under SpecInk.                        *)
(***************************************************************************)
PaletteRGB ==
    LET lvl(p) == CASE p = 0 -> 0 [] p = 50 -> 128 [] p = 100 -> 255
    IN  [i \in 0..26 |->
            <<lvl(INK_RGB_PCT[i][1]), lvl(INK_RGB_PCT[i][2]), lvl(INK_RGB_PCT[i][3])>>]

ClaimDist(rgb, i) ==
    LET q == PaletteRGB[i]
    IN  (rgb[1] - q[1]) * (rgb[1] - q[1]) + (rgb[2] - q[2]) * (rgb[2] - q[2])
        + (rgb[3] - q[3]) * (rgb[3] - q[3])

\* the ink of least squared distance, the lowest index among equals
LowestNearest(rgb) ==
    CHOOSE k \in 0..26 :
        \A j \in 0..26 :
            /\ ClaimDist(rgb, k) <= ClaimDist(rgb, j)
            /\ ClaimDist(rgb, j) = ClaimDist(rgb, k) => k <= j

ChannelOff(rgb, i, tol) ==
    \E c \in 1..3 : Abs(rgb[c] - PaletteRGB[i][c]) > tol

\* C4: the 27 palette colours are pairwise distinct and nearest_ink of the
\* colour of ink i at tolerance 0 returns i without raising.
C4_ExactSelfMatch ==
    /\ \A i, j \in 0..26 : i # j => INK_RGB[i] # INK_RGB[j]
    /\ \A i \in 0..26 :
          (nearest.pc = "out" /\ nearest.tol = 0 /\ nearest.rgb = INK_RGB[i])
              => nearest.res = [raised |-> FALSE, ink |-> i]

C4_Witness ==
    /\ nearest.pc = "out" /\ nearest.tol = 0 /\ nearest.rgb = <<128, 255, 0>>
    /\ nearest.res = [raised |-> FALSE, ink |-> 21]

\* C5: with the tolerance disabled nearest_ink returns the ink of least
\* squared Euclidean distance, and the lowest ink index among those at that
\* distance.
C5_NearestLowestIndex ==
    (nearest.pc = "out" /\ nearest.tol < 0) =>
        /\ ~nearest.res.raised
        /\ nearest.res.ink = LowestNearest(nearest.rgb)

\* (64,0,0) is as far from ink 0 (0,0,0) as from ink 3 (128,0,0)
C5_Witness ==
    /\ nearest.pc = "out" /\ nearest.tol < 0 /\ nearest.rgb = <<64, 0, 0>>
    /\ ClaimDist(nearest.rgb, 0) = ClaimDist(nearest.rgb, 3)
    /\ nearest.res.ink = 0

\* C6: with tol >= 0 nearest_ink raises exactly when the nearest palette
\* colour is more than tol away on some channel, and otherwise returns that
\* ink; with tol < 0 it never raises.
C6_ToleranceError ==
    nearest.pc = "out" =>
        LET near == LowestNearest(nearest.rgb)
        IN  /\ nearest.tol >= 0 =>
                /\ nearest.res.raised <=> ChannelOff(nearest.rgb, near, nearest.tol)
                /\ ~nearest.res.raised => nearest.res.ink = near
            /\ nearest.tol < 0 => ~nearest.res.raised

C6_Witness ==
    /\ nearest.pc = "out" /\ nearest.tol = 63 /\ nearest.rgb = <<64, 128, 255>>
    /\ nearest.res.raised


(***************************************************************************)
(* Claims about convert_png_to_rows and the round trip, checked under      *)
(* SpecImage.  The image converted last is pngs[pi].                       *)
(***************************************************************************)
Pixels(img) == {yx \in (1..img.h) \X (1..img.w) : TRUE}
ClaimRGB(p) == <<p[1], p[2], p[3]>>
IsClear(p) == p[4] = 0 /\ args.transparent_ink # <<>>

\* the ink a pixel stands for
ClaimInk(p) ==
    IF IsClear(p) THEN args.transparent_ink[1] ELSE LowestNearest(ClaimRGB(p))

\* a colour-matched pixel that the configured tolerance rejects
Rejected(p) ==
    /\ ~IsClear(p)
    /\ args.tol >= 0
    /\ ChannelOff(ClaimRGB(p), LowestNearest(ClaimRGB(p)), args.tol)

ClaimInks(img) == {ClaimInk(img.px[yx[1]][yx[2]]) : yx \in Pixels(img)}

\* the two ways an encoding fails
ClaimFails(img, m) ==
    \/ img.w % MODE_SPECS[m].px_per_byte # 0
    \/ Cardinality(ClaimInks(img)) > MODE_SPECS[m].colors

\* the pen packed for pixel (x, y), read back from the returned rows
PackedPen(c, m, yx) ==
    LET n == MODE_SPECS[m].px_per_byte
    IN  DecodeByte("asm2pngs", m, c.rows[yx[1]][((yx[2] - 1) \div n) + 1])[((yx[2] - 1) % n) + 1]

Converted == pc = "p2a_loop" /\ pi >= 1

\* C2 (as stated): an image whose width is a multiple of px_per_byte and
\* whose at most max_pens colours are all opaque palette colours comes back
\* from png2asm followed by asm2pngs in the same mode with the same
\* dimensions and identical pixels.
OnPalette(img, m) ==
    /\ img.w % MODE_SPECS[m].px_per_byte = 0
    /\ \A yx \in Pixels(img) :
          LET p == img.px[yx[1]][yx[2]]
          IN  p[4] = 255 /\ \E i \in 0..26 : ClaimRGB(p) = PaletteRGB[i]
    /\ Cardinality({img.px[yx[1]][yx[2]] : yx \in Pixels(img)}) <= MODE_SPECS[m].colors

SameImage(a, b) ==
    /\ a.w = b.w /\ a.h = b.h
    /\ \A yx \in Pixels(b) : a.px[yx[1]][yx[2]] = b.px[yx[1]][yx[2]]

C2_RoundTrip ==
    (pc = "done" /\ Len(pngs) = 1 /\ OnPalette(pngs[1].img, args.mode)) =>
        /\ Len(saved) = 1
        /\ SameImage(saved[1].img, pngs[1].img)

\* C2 (what holds): the round trip of C2 for the images whose height and
\* width in bytes both fit in one byte.
C2_RoundTripBelow256 ==
    (/\ pc = "done" /\ Len(pngs) = 1 /\ OnPalette(pngs[1].img, args.mode)
     /\ pngs[1].img.h < 256
     /\ pngs[1].img.w \div MODE_SPECS[args.mode].px_per_byte < 256) =>
        /\ Len(saved) = 1
        /\ SameImage(saved[1].img, pngs[1].img)

\* all sixteen pens of mode 0 make the round trip
C2_Witness ==
    /\ pc = "done" /\ args.mode = 0 /\ Len(pngs) = 1 /\ Len(saved) = 1
    /\ pngs[1].img = Ramp(0, 16)
    /\ saved[1].img.h = 8
    /\ saved[1].img.px[8][2] = <<255, 128, 0, 255>>

\* C7: a pixel rejected at the configured tolerance takes the nearest ink
\* and sets the fallback flag; the conversion fails only for its width or
\* its number of inks, never for a rejected pixel; the returned flag is true
\* exactly when some colour-matched pixel was rejected.
C7_FallbackFlag ==
    Converted =>
        \A img \in {pngs[pi].img} :
            /\ conv.raised <=> ClaimFails(img, args.mode)
            /\ ~conv.raised =>
                /\ conv.auto_tol_used <=>
                      \E yx \in Pixels(img) : Rejected(img.px[yx[1]][yx[2]])
                /\ \A yx \in Pixels(img) :
                      Rejected(img.px[yx[1]][yx[2]]) =>
                          conv.used_inks[PackedPen(conv, args.mode, yx) + 1]
                              = LowestNearest(ClaimRGB(img.px[yx[1]][yx[2]]))

\* (64,0,0) is 64 away from ink 0: rejected at --tol 8, matched to ink 0
C7_Witness ==
    /\ Converted /\ args.tol = 8 /\ ~conv.raised /\ conv.auto_tol_used
    /\ pngs[pi].img.px[1][1] = K_FAR
    /\ conv.used_inks[1] = 0

\* C8: when convert_png_to_rows succeeds, used_inks has no duplicates, holds
\* the inks of the pixels in the order of their first occurrence in a
\* top-to-bottom, left-to-right scan, is at most max_pens long, and the pen
\* packed for each pixel is the index of that pixel's ink in it.
FirstAt(img, ink) ==
    LET at == {(yx[1] - 1) * img.w + yx[2] :
                  yx \in {q \in Pixels(img) : ClaimInk(img.px[q[1]][q[2]]) = ink}}
    IN  SetMin(at)

C8_UsedInkList ==
    (Converted /\ ~conv.raised) =>
        \A img \in {pngs[pi].img} : \A u \in {conv.used_inks} :
            /\ \A a, b \in 1..Len(u) : a # b => u[a] # u[b]
            /\ Range(u) = ClaimInks(img)
            /\ \A a, b \in 1..Len(u) : a < b => FirstAt(img, u[a]) < FirstAt(img, u[b])
            /\ Len(u) <= MODE_SPECS[args.mode].colors
            /\ \A yx \in Pixels(img) :
                  /\ PackedPen(conv, args.mode, yx) < MODE_SPECS[args.mode].colors
                  /\ u[PackedPen(conv, args.mode, yx) + 1] = ClaimInk(img.px[yx[1]][yx[2]])

\* white comes first (pen 0), the transparent pixels second (pen 1)
C8_Witness ==
    /\ Converted /\ ~conv.raised /\ args.mode = 1 /\ args.transparent_ink = <<5>>
    /\ pngs[pi].img = TileImage(1, <<2, 5>>, 2)
    /\ conv.used_inks = <<26, 5>>
    /\ conv.rows[1] = <<pack_mode1(0, 1, 0, 1)>>

(***************************************************************************)
(* Claims about the batch drivers, checked under Spec.                     *)
(***************************************************************************)
StartsWith(line, prefix) ==
    Len(line) >= Len(prefix) /\ SubSeq(line, 1, Len(prefix)) = prefix

\* the lines of one complete block of image i: label, markers, the two
\* header lines, one db line per row, the palette comment, the INK lines,
\* the closing blank line
CompleteBlock(b, i) ==
    \A img \in {pngs[i].img} : \A k \in {Cardinality(ClaimInks(pngs[i].img))} :
        /\ Len(b) = 7 + img.h + k
        /\ b[1] = upper(safe_label(pngs[i].rel))
        /\ b[2] = BEGIN_LINE
        /\ StartsWith(b[3], <<" ", " ", "d", "b", " ">>)
        /\ StartsWith(b[4], <<" ", " ", "d", "b", " ">>)
        /\ \A y \in 1..img.h : StartsWith(b[4 + y], <<" ", " ", "d", "b", " ">>)
        /\ b[5 + img.h] = END_LINE
        /\ b[6 + img.h] = PALETTE_LINE
        /\ \A j \in 1..k :
              StartsWith(b[6 + img.h + j], <<" ", " ", ";", " ", "I", "N", "K", " ">>)
        /\ b[7 + img.h + k] = <<>>

RECURSIVE BlocksOf(_, _)
\* lines is made of the complete blocks of the images i..pi that do not
\* fail, in order, each after its optional note line, and of nothing else
BlocksOf(lines, i) ==
    IF i > pi THEN lines = <<>>
    ELSE IF ClaimFails(pngs[i].img, args.mode) THEN BlocksOf(lines, i + 1)
    ELSE \A n \in {IF lines # <<>> /\ lines[1] = NOTE_LINE THEN 1 ELSE 0} :
         \A len \in {n + 7 + pngs[i].img.h + Cardinality(ClaimInks(pngs[i].img))} :
            /\ Len(lines) >= len
            /\ CompleteBlock(SubSeq(lines, n + 1, len), i)
            /\ BlocksOf(SubSeq(lines, len + 1, Len(lines)), i + 1)

\* C9: in the png2asm batch an image that fails (too many inks, or a width
\* not divisible by px_per_byte) has nothing of its block in the output
\* text, and every image that does not fail has its complete block there,
\* whatever failed before it.
C9_FailedImageWritesNothing ==
    pc = "p2a_loop" => BlocksOf(SubSeq(f, 3, Len(f)), 1)

\* the first image failed, the block of the second follows the file header
C9_Witness ==
    /\ pc = "p2a_loop" /\ pi = 2
    /\ ClaimFails(pngs[1].img, args.mode) /\ ~ClaimFails(pngs[2].img, args.mode)
    /\ Len(f) > 2
    /\ f[3] = <<"F", "_", "2">>

IsStatus(s) == s = <<"OK">> \/ (Len(s) = 2 /\ s[1] = "ERROR: ")
OkRows(rows, field) == Cardinality({i \in 1..Len(rows) : rows[i][field] = <<"OK">>})

\* the blocks of all the ASM files, in processing order
Units ==
    Flatten([j \in 1..Len(asms) |->
                LET bs == parse_blocks_from_asm(asms[j].text)
                IN  [k \in 1..Len(bs) |-> [asm |-> asms[j].name, label |-> bs[k].label]]])

\* C10: after the loop of either driver the summary holds one entry per
\* unit (image of png2asm, block of asm2pngs) in processing order, each
\* with status OK or ERROR, and the OK count plus the error count is the
\* number of units.
C10_SummaryPerUnit ==
    /\ pc \in {"p2a_done", "a2p_file", "a2p_block", "done"} =>
        /\ Len(summary) = Len(pngs)
        /\ \A i \in 1..Len(pngs) :
              summary[i].PNG = pngs[i].rel /\ IsStatus(summary[i].Status)
        /\ converted_ok + converted_fail = Len(pngs)
        /\ converted_ok = OkRows(summary, "Status")
    /\ pc = "done" =>
        \A units \in {Units} :
            /\ Len(dsummary) = Len(units)
            /\ \A i \in 1..Len(units) :
                  /\ dsummary[i].ASM = units[i].asm
                  /\ dsummary[i].LABEL = upper(sanitize_name(units[i].label))
                  /\ IsStatus(dsummary[i].STATUS)
            /\ ok + fail = Len(units)
            /\ ok = OkRows(dsummary, "STATUS")
            /\ total_blocks = Len(units)

\* in both drivers a unit succeeds after another one failed
C10_Witness ==
    /\ pc = "done"
    /\ Len(summary) = 2 /\ summary[1].Status[1] = "ERROR: " /\ summary[2].Status = <<"OK">>
    /\ Len(dsummary) = 4 /\ dsummary[3].STATUS[1] = "ERROR: " /\ dsummary[4].STATUS = <<"OK">>
    /\ ok = 2 /\ fail = 2
(***************************************************************************)
(* Claims about the geometry heuristic of asm2png.py (SpecGuess).          *)
(***************************************************************************)
\* the first two bytes lie in [1,255] and the declared region is available
HeaderFits(flat) ==
    /\ Len(flat) >= 2
    /\ flat[1] \in 1..255 /\ flat[2] \in 1..255
    /\ Len(flat) - 2 >= flat[1] * flat[2]

\* the first source row has exactly 2 bytes and the second at least 4
ShortThenLong(rows) == Len(rows) >= 2 /\ Len(rows[1]) = 2 /\ Len(rows[2]) >= 4

IsHeaderResult(res, flat) ==
    /\ ~res.raised
    /\ res.fmt = "header"
    /\ res.width_bytes = flat[1]
    /\ res.height = flat[2]
    /\ res.data = [i \in 1..(flat[1] * flat[2]) |-> flat[2 + i]]

\* C11: guess_format returns the header interpretation (width_bytes =
\* flat[0], height = flat[1], data = the next width_bytes*height bytes)
\* whenever the first two bytes lie in [1,255] and that many bytes follow
\* them, except when the first row has exactly 2 bytes and the second at
\* least 4, where it uses row-based geometry; the bytes 2,3,1,2,3,4,5,6
\* give header geometry 2x3 with data 1..6.
C11_HeaderGeometry ==
    guess.pc = "out" =>
        /\ (HeaderFits(guess.flat) /\ ~ShortThenLong(guess.rows))
              => IsHeaderResult(guess.res, guess.flat)
        /\ (HeaderFits(guess.flat) /\ ShortThenLong(guess.rows))
              => (~guess.res.raised /\ guess.res.fmt = "lines")
        /\ (guess.flat = <<2, 3, 1, 2, 3, 4, 5, 6>> /\ ~ShortThenLong(guess.rows))
              => /\ guess.res.fmt = "header"
                 /\ guess.res.width_bytes = 2 /\ guess.res.height = 3
                 /\ guess.res.data = <<1, 2, 3, 4, 5, 6>>

\* C11 witness: the bytes 2,3,1,2,3,4,5,6 in rows of two were given the
\* header geometry
C11_Witness ==
    /\ guess.pc = "out"
    /\ guess.rows = <<<<2, 3>>, <<1, 2>>, <<3, 4>>, <<5, 6>>>>
    /\ guess.res.fmt = "header"
    /\ guess.res.data = <<1, 2, 3, 4, 5, 6>>

RestLens(rows) == [i \in 1..(Len(rows) - 1) |-> Len(rows[i + 1])]

\* w is the length of more than half of the rows after the first
Majority(rows, w) ==
    2 * Cardinality({i \in 1..Len(RestLens(rows)) : RestLens(rows)[i] = w}) > Len(RestLens(rows))

ClaimDrops(rows) ==
    /\ Len(rows) >= 3
    /\ \E w \in Range(RestLens(rows)) : Majority(rows, w) /\ Len(rows[1]) < w

ClaimKept(rows) == IF ClaimDrops(rows) THEN Tail(rows) ELSE rows

\* w is a most frequent row length of kept
MostFrequent(kept, w) ==
    /\ \E i \in 1..Len(kept) : Len(kept[i]) = w
    /\ \A j \in 1..Len(kept) :
          Cardinality({i \in 1..Len(kept) : Len(kept[i]) = Len(kept[j])})
              <= Cardinality({i \in 1..Len(kept) : Len(kept[i]) = w})

Padded(r, w) == [k \in 1..w |-> IF k <= Len(r) THEN r[k] ELSE 0]

RowGeometry(res, kept) ==
    /\ res.height = Len(kept)
    /\ MostFrequent(kept, res.width_bytes)
    /\ res.data = Flatten([i \in 1..Len(kept) |-> Padded(kept[i], res.width_bytes)])

\* C12: in row-based geometry guess_format discards the first row exactly
\* when at least 3 rows exist and the first row is shorter than a dominant
\* width shared by a majority of the remaining rows, otherwise it keeps all
\* rows; the kept rows are truncated or zero-padded to the most frequent row
\* length and height is the number of kept rows.
C12_RowGeometry ==
    (guess.pc = "out" /\ guess.res.fmt = "lines")
        => RowGeometry(guess.res, ClaimKept(guess.rows))

\* a document of fewer than 3 rows, or one where some width is that of more
\* than half of the rows after the first
ClearMajority(rows) ==
    \/ Len(rows) < 3
    \/ \E w \in Range(RestLens(rows)) : Majority(rows, w)

\* C12 where the majority is clear: with fewer than 3 rows, or with a width
\* shared by more than half of the remaining rows, the first row is
\* discarded exactly when it is shorter than that width, the kept rows are
\* truncated or zero-padded to the most frequent length and height is their
\* number.
C12_ClearMajority ==
    (guess.pc = "out" /\ guess.res.fmt = "lines" /\ ClearMajority(guess.rows))
        => RowGeometry(guess.res, ClaimKept(guess.rows))

\* C12 witness: rows 9,9 / 1,2,3,4 / 1,2,3,4 / 1,2,3,4 gave width 4 and
\* height 3
C12_Witness ==
    /\ guess.pc = "out"
    /\ guess.rows = <<<<9, 9>>, <<1, 2, 3, 4>>, <<1, 2, 3, 4>>, <<1, 2, 3, 4>>>>
    /\ guess.res.fmt = "lines"
    /\ guess.res.width_bytes = 4 /\ guess.res.height = 3
    /\ guess.res.data = <<1, 2, 3, 4, 1, 2, 3, 4, 1, 2, 3, 4>>

(***************************************************************************)
(* Claims about the decoder of asm2pngs.py, checked under SpecAsm: one     *)
(* document, so that dsummary[k] is the row of blocks[k].                  *)
(***************************************************************************)
\* the pen of pixel i (from 0) of byte b in mode m, by the hardware layout
LayoutPen(m, b, i) ==
    CASE m = 0 -> Bit(b, 7 - i) + 2 * Bit(b, 3 - i) + 4 * Bit(b, 5 - i) + 8 * Bit(b, 1 - i)
      [] m = 1 -> 2 * Bit(b, 7 - i) + Bit(b, 3 - i)
      [] m = 2 -> Bit(b, 7 - i)

\* blocks already handed to decode_block_to_png
DecodedBlocks == 1..bi

RowOk(k) == dsummary[k].STATUS = <<"OK">>
RowError(k) == Len(dsummary[k].STATUS) = 2 /\ dsummary[k].STATUS[1] = "ERROR: "

\* the image saved for block k, if its row is OK
ImageOf(k) == saved[Cardinality({j \in 1..k : RowOk(j)})].img

\* the byte of the block that pixel (x, y) comes from, the header being
\* bytes 1 and 2
SourceByte(b, m, x, y) ==
    b[2 + (y - 1) * b[1] + ((x - 1) \div MODE_SPECS[m].px_per_byte) + 1]

DecodedFromHeader(k, b, m) ==
    /\ RowOk(k)
    /\ ImageOf(k).w = b[1] * MODE_SPECS[m].px_per_byte
    /\ ImageOf(k).h = b[2]
    /\ \A y \in 1..b[2] : \A x \in 1..(b[1] * MODE_SPECS[m].px_per_byte) :
          ImageOf(k).px[y][x] =
              pen_to_rgba(blocks[k].pen_to_ink, args.bg_ink,
                          LayoutPen(m, SourceByte(b, m, x, y),
                                    (x - 1) % MODE_SPECS[m].px_per_byte))

\* C13: decode_block_to_png takes width_bytes and height from the first two
\* bytes of the block and decodes exactly the next width_bytes*height bytes
\* (bytes beyond are ignored); a block of fewer than 2 bytes, or of fewer
\* than width_bytes*height bytes after the header, fails with an error and
\* no image is produced.
C13_HeaderAndData ==
    /\ Len(saved) = Cardinality({k \in 1..Len(dsummary) : RowOk(k)})
    /\ \A k \in DecodedBlocks :
          \A b \in {blocks[k].db_bytes} :
              IF Len(b) < 2 THEN RowError(k)
              ELSE IF Len(b) - 2 < b[1] * b[2] THEN RowError(k)
              ELSE DecodedFromHeader(k, b, args.mode)

\* C13 witness: a block of 1x1 whose data line holds one byte more was
\* decoded to a 4x1 image in mode 1
C13_Witness ==
    /\ pc = "done" /\ args.mode = 1 /\ bi = 1
    /\ blocks[1].db_bytes = <<1, 1, 27, 255>>
    /\ dsummary[1].STATUS = <<"OK">>
    /\ saved[1].img.w = 4 /\ saved[1].img.h = 1

\* what a line of the document says
Meaning(line) ==
    IF line = LABEL_LINE.text THEN LABEL_LINE
    ELSE CHOOSE e \in Range(AsmPool) : e.text = line

\* the lines of the document that give an ink to pen
HintsFor(doc, pen) ==
    {i \in 1..Len(doc) : Meaning(doc[i]).hint # <<>> /\ Meaning(doc[i]).hint[1] = pen}

LastOf(S) == CHOOSE x \in S : \A y \in S : y <= x

\* the last hint for pen, else the fallback ink, else the pen itself
ClaimResolve(doc, pen) ==
    IF HintsFor(doc, pen) # {} THEN Meaning(doc[LastOf(HintsFor(doc, pen))]).hint[2]
    ELSE IF args.bg_ink # <<>> THEN args.bg_ink[1]
    ELSE pen

ClaimClamp(ink) == IF ink < 0 THEN 0 ELSE IF ink > 26 THEN 26 ELSE ink

\* C14: every pen resolves to the block's last INK hint for that pen if
\* there is one, else to the fallback ink if given, else to the pen itself,
\* clamped to [0,26]; every decoded pixel is that palette colour with alpha
\* 255.
C14_PenResolution ==
    \A k \in DecodedBlocks :
        RowOk(k) =>
            \A y \in 1..ImageOf(k).h : \A x \in 1..ImageOf(k).w :
                \E ink \in 0..26 :
                    /\ ink = ClaimClamp(ClaimResolve(asms[1].text,
                                LayoutPen(args.mode,
                                          SourceByte(blocks[k].db_bytes, args.mode, x, y),
                                          (x - 1) % MODE_SPECS[args.mode].px_per_byte)))
                    /\ ImageOf(k).px[y][x] =
                          <<PaletteRGB[ink][1], PaletteRGB[ink][2], PaletteRGB[ink][3], 255>>

\* C14 witness: mode 1, no fallback ink, byte &1B (pens 1,0,1,3), hints
\* INK 0,3 then INK 0,7: pen 0 shows ink 7, pen 3 (no hint) ink 3
C14_Witness ==
    /\ pc = "done" /\ args.mode = 1 /\ args.bg_ink = <<>>
    /\ Len(saved) = 1
    /\ blocks[1].db_bytes = <<1, 1, 27, 255>>
    /\ blocks[1].pen_to_ink[0] = 7
    /\ saved[1].img.px[1][2] = <<PaletteRGB[7][1], PaletteRGB[7][2], PaletteRGB[7][3], 255>>
    /\ saved[1].img.px[1][4] = <<PaletteRGB[3][1], PaletteRGB[3][2], PaletteRGB[3][3], 255>>

(***************************************************************************)
(* Claims about parse_blocks_from_asm, checked under SpecParse.            *)
(***************************************************************************)
LitParsed == parser.pc = "out" /\ parser.kind \in {"lit", "litlab"}

\* the value of each literal modulo 256, left to right
LitBytes(items) == [i \in 1..Len(items) |-> Literals[items[i]].val % 256]

\* C15: on a data line each numeric literal, in any accepted form (123, -5,
\* &7F, 0x7F, $7F), contributes exactly one byte, its value modulo 256, in
\* left-to-right order; the hex forms are case-insensitive in the 0x prefix
\* and in the digits (0X7f, 0x7F and &7f each yield the byte 127).
C15_LiteralBytes ==
    LitParsed =>
        /\ Len(parser.blocks) = 1
        /\ parser.blocks[1].db_bytes = LitBytes(parser.items)

\* a literal written with the prefix 0X
UpperPrefix(items) ==
    \E i \in 1..Len(items) :
        /\ Len(Literals[items[i]].text) >= 2
        /\ Literals[items[i]].text[1] = "0"
        /\ Literals[items[i]].text[2] = "X"

\* C15 without the upper-case prefix: each literal written as decimal,
\* negative decimal, &hex, 0xhex or $hex (hex digits in either case)
\* contributes exactly one byte, its value modulo 256, in left-to-right
\* order.
C15_LowerPrefix ==
    (LitParsed /\ ~UpperPrefix(parser.items)) =>
        /\ Len(parser.blocks) = 1
        /\ parser.blocks[1].db_bytes = LitBytes(parser.items)

\* C15 witness: " db -5,0x7F" under a label gave the bytes 251, 127
C15_Witness ==
    /\ parser.pc = "out" /\ parser.kind = "litlab"
    /\ parser.lines[2] = <<" ", "d", "b", " ", "-", "5", ",", "0", "x", "7", "F">>
    /\ Len(parser.blocks) = 1
    /\ parser.blocks[1].db_bytes = <<251, 127>>

KindAt(items, i) == DocPool[items[i]].kind

\* the kind of the next line after i that is not blank
NextRelevantKind(items, i) ==
    IF \E j \in (i + 1)..Len(items) : KindAt(items, j) # "blank"
    THEN KindAt(items, CHOOSE j \in (i + 1)..Len(items) :
                          /\ KindAt(items, j) # "blank"
                          /\ \A l \in (i + 1)..(j - 1) : KindAt(items, l) = "blank")
    ELSE "none"

\* a label line: NAME: always, a lone NAME when a data line or a BEGIN
\* marker is the next line that is not blank
Recognized(items, i) ==
    \/ KindAt(items, i) = "colon"
    \/ KindAt(items, i) = "solo" /\ NextRelevantKind(items, i) \in {"data", "begin"}

LabelLines(items) == {i \in 1..Len(items) : Recognized(items, i)}

\* the k-th label line
LabelLine(items, k) ==
    CHOOSE i \in LabelLines(items) : Cardinality({j \in LabelLines(items) : j <= i}) = k

\* the last line before the label line after i, or the last line
BlockEnd(items, i) ==
    IF \E j \in LabelLines(items) : j > i
    THEN (CHOOSE j \in LabelLines(items) :
              j > i /\ \A l \in LabelLines(items) : l > i => j <= l) - 1
    ELSE Len(items)

BytesIn(items, lo, hi) ==
    Flatten([k \in 1..(hi - lo + 1) |-> DocPool[items[lo + k - 1]].bytes])

HintLines(items, lo, hi, pen) ==
    {j \in lo..hi : DocPool[items[j]].hint # <<>> /\ DocPool[items[j]].hint[1] = pen}

HintsIn(items, lo, hi) ==
    [pen \in {DocPool[items[j]].hint[1] : j \in {l \in lo..hi : DocPool[items[l]].hint # <<>>}} |->
        DocPool[items[LastOf(HintLines(items, lo, hi, pen))]].hint[2]]

ExpectedBlocks(items) ==
    IF LabelLines(items) = {}
    THEN << [label |-> <<"I", "M", "G">>,
             db_bytes |-> BytesIn(items, 1, Len(items)),
             pen_to_ink |-> HintsIn(items, 1, Len(items))] >>
    ELSE [k \in 1..Cardinality(LabelLines(items)) |->
             [label |-> DocPool[items[LabelLine(items, k)]].name,
              db_bytes |-> BytesIn(items, LabelLine(items, k) + 1,
                                   BlockEnd(items, LabelLine(items, k))),
              pen_to_ink |-> HintsIn(items, LabelLine(items, k) + 1,
                                     BlockEnd(items, LabelLine(items, k)))]]

\* C16: parse_blocks_from_asm returns one block per recognized label line,
\* in order (also when it has no data), each holding exactly the bytes (and
\* INK hints) of the lines between its label and the next recognized label
\* or the end; lines before the first label belong to no block; with no
\* label at all it returns one block IMG holding every data byte and INK
\* hint of the document.
C16_BlocksPerLabel ==
    (parser.pc = "out" /\ parser.kind = "doc")
        => parser.blocks = ExpectedBlocks(parser.items)

\* C16 witness: a data line, then A:, then a data line: one block A with the
\* bytes of the second data line only
C16_Witness ==
    /\ parser.pc = "out" /\ parser.kind = "doc"
    /\ parser.items = <<3, 1, 4>>
    /\ Len(parser.blocks) = 1
    /\ parser.blocks[1].label = <<"A">>
    /\ parser.blocks[1].db_bytes = <<3>>

(***************************************************************************)
(* Claim about the inks png2asm emits, checked under SpecImage.            *)
(***************************************************************************)
IsInkLine(line) == StartsWith(line, <<" ", " ", ";", " ", "I", "N", "K", " ">>)

\* every ink of the used-ink list, and of the INK lines written so far, is
\* in [0,26]
ValidInks ==
    /\ \A i \in 1..Len(conv.used_inks) : conv.used_inks[i] \in 0..26
    /\ \A j \in 1..Len(f) :
          IsInkLine(f[j]) =>
              \E pen \in 0..15 : \E ink \in 0..26 : f[j] = ink_line(pen, ink)

\* C17: whenever convert_png_to_rows succeeds, for any image and any
\* configuration (mode, tolerance, transparent ink), every value of the
\* returned used-ink list, hence every ink written in an emitted INK line,
\* is a valid ink in [0,26].
C17_ValidInks == (Converted /\ ~conv.raised) => ValidInks

\* C17 for a transparent ink that is itself valid: without --transparent-ink,
\* or with one in [0,26], every used ink and every emitted INK line holds an
\* ink in [0,26].
C17_ValidInksGivenValidOption ==
    (Converted /\ ~conv.raised
       /\ (args.transparent_ink = <<>> \/ args.transparent_ink[1] \in 0..26))
        => ValidInks

\* C17 witness: with --transparent-ink 5 a transparent pixel put ink 5 in the
\* used-ink list and in an INK line
C17_Witness ==
    /\ Converted /\ ~conv.raised
    /\ args.transparent_ink = <<5>>
    /\ \E i \in 1..Len(conv.used_inks) :
          /\ conv.used_inks[i] = 5
          /\ \E j \in 1..Len(f) : f[j] = ink_line(i - 1, 5)
    /\ \E yx \in Pixels(pngs[1].img) : pngs[1].img.px[yx[1]][yx[2]][4] = 0

=============================================================================
